---- MODULE Spec2Model ----
(***************************************************************************)
(* A model of the txtarchive codec (txtarchive/packunpack.py and           *)
(* txtarchive/split_files.py): the archive encoder, the two decoders, the  *)
(* format detection, the chunk splitter and its reassembly, and the        *)
(* notebook transform.                                                     *)
(*                                                                         *)
(* A text is a sequence of one-character strings, a path is the text of    *)
(* its string form, and a directory is a function from the paths of its    *)
(* files to their contents.                                                *)
(***************************************************************************)
EXTENDS Integers, Sequences, FiniteSets, TLC

VARIABLES
    pc,                \* position of the session
    tree,              \* the input directory: relative path -> file content
    opts,              \* the options archive_files was called with
    file_list,         \* archive_files: the sorted (rel_path, content) list it emitted
    archive,           \* the text of the archive file
    outdir0,           \* the output directory before the decode
    outdir,            \* the output directory
    replace_existing,  \* the flag the decoder was called with
    detected,          \* what auto_detect_archive_format returned
    parsed,            \* decoder: the (filename, body) pairs of the parsed sections
    writes,            \* decoder: the file writes it made, in order
    text,              \* splitter: the text of the file to split
    max_chars,         \* splitter: the limit split_file was called with
    chunks,            \* splitter: the chunk bodies, as line sequences, in part order
    splitdir,          \* splitter: the chunk directory, file name -> content
    reassembled,       \* the text the reassembly step built from splitdir
    notebook0,         \* notebook transform: the notebook before the operation
    notebook,          \* notebook transform: the notebook after the operation
    notebook1,         \* notebook transform: the notebook after the first pruning
    is_dir,            \* whether the input directory exists
    made,              \* the directories the operation created or found in place (mkdir)
    error,             \* the message of the exception archive_files raised, if any
    scan_lines,        \* marker scan: content_lines, the lines of the section body
    scan_index,        \* marker scan: i, the index of the next line to read (from 1)
    scan_cells,        \* marker scan: cells, the cells completed so far
    scan_body          \* marker scan: code_content or markdown_content, being accumulated

vars == <<pc, tree, opts, file_list, archive, outdir0, outdir, replace_existing,
          detected, parsed, writes, text, max_chars, chunks, splitdir, reassembled,
          notebook0, notebook, notebook1, is_dir, made, error,
          scan_lines, scan_index, scan_cells, scan_body>>

(***************************************************************************)
(* Strings                                                                 *)
(***************************************************************************)

\* The code point of a character: Python compares strings by code point.
Ord ==
    ("\n" :> 10) @@ (" " :> 32) @@ ("\"" :> 34) @@ ("#" :> 35) @@ ("-" :> 45) @@ ("." :> 46) @@
    ("/" :> 47) @@ ("0" :> 48) @@ ("1" :> 49) @@ ("2" :> 50) @@ ("3" :> 51) @@ ("4" :> 52) @@
    ("5" :> 53) @@ ("6" :> 54) @@ ("7" :> 55) @@ ("8" :> 56) @@ ("9" :> 57) @@ (":" :> 58) @@
    ("<" :> 60) @@ ("=" :> 61) @@ (">" :> 62) @@ ("A" :> 65) @@ ("B" :> 66) @@ ("C" :> 67) @@
    ("D" :> 68) @@ ("E" :> 69) @@ ("F" :> 70) @@ ("G" :> 71) @@ ("H" :> 72) @@ ("I" :> 73) @@
    ("J" :> 74) @@ ("K" :> 75) @@ ("L" :> 76) @@ ("M" :> 77) @@ ("N" :> 78) @@ ("O" :> 79) @@
    ("P" :> 80) @@ ("Q" :> 81) @@ ("R" :> 82) @@ ("S" :> 83) @@ ("T" :> 84) @@ ("U" :> 85) @@
    ("V" :> 86) @@ ("W" :> 87) @@ ("X" :> 88) @@ ("Y" :> 89) @@ ("Z" :> 90) @@ ("\\" :> 92) @@
    ("_" :> 95) @@ ("a" :> 97) @@ ("b" :> 98) @@ ("c" :> 99) @@ ("d" :> 100) @@ ("e" :> 101) @@
    ("f" :> 102) @@ ("g" :> 103) @@ ("h" :> 104) @@ ("i" :> 105) @@ ("j" :> 106) @@ ("k" :> 107) @@
    ("l" :> 108) @@ ("m" :> 109) @@ ("n" :> 110) @@ ("o" :> 111) @@ ("p" :> 112) @@ ("q" :> 113) @@
    ("r" :> 114) @@ ("s" :> 115) @@ ("t" :> 116) @@ ("u" :> 117) @@ ("v" :> 118) @@ ("w" :> 119) @@
    ("x" :> 120) @@ ("y" :> 121) @@ ("z" :> 122) @@ ("{" :> 123)

\* str < str: the first differing character decides, a proper prefix is smaller.
StrLess(a, b) ==
    \E i \in 1..(Len(b)) :
        /\ \A j \in 1..(i - 1) : j <= Len(a) /\ a[j] = b[j]
        /\ i - 1 <= Len(a)
        /\ (i > Len(a) \/ Ord[a[i]] < Ord[b[i]])

Min(S) == CHOOSE x \in S : \A y \in S : x <= y

Max(S) == CHOOSE x \in S : \A y \in S : y <= x

\* s[i:].startswith(p), i counted from 1
HasAt(s, p, i) ==
    /\ i >= 1
    /\ i + Len(p) - 1 <= Len(s)
    /\ (p = <<>> \/ s[i + Len(p) - 1] = p[Len(p)])
    /\ \A j \in 1..Len(p) : s[i + j - 1] = p[j]

\* p in s
Contains(s, p) == \E i \in 1..(Len(s) - Len(p) + 1) : HasAt(s, p, i)

\* s.startswith(p)
StartsWith(s, p) == HasAt(s, p, 1)

\* s.endswith(p)
EndsWith(s, p) == Len(p) <= Len(s) /\ HasAt(s, p, Len(s) - Len(p) + 1)

\* s.find(p, k), counted from 1, 0 when there is none
FindFrom(s, p, k) ==
    LET last == Len(s) - Len(p) + 1
    IN  IF \E i \in k..last : HasAt(s, p, i)
        THEN CHOOSE i \in k..last : HasAt(s, p, i) /\ \A j \in k..(i - 1) : ~HasAt(s, p, j)
        ELSE 0

\* s.rfind(c) for one character, counted from 1, 0 when there is none
RFind(s, c) ==
    LET hits == {i \in 1..Len(s) : s[i] = c}
    IN  IF hits = {} THEN 0 ELSE Max(hits)

\* s.split(p, maxsplit); maxsplit = -1 is s.split(p)
RECURSIVE SplitFrom(_, _, _, _)
SplitFrom(s, p, k, maxsplit) ==
    LET i == IF maxsplit = 0 THEN 0 ELSE FindFrom(s, p, k)
    IN  IF i = 0
        THEN <<SubSeq(s, k, Len(s))>>
        ELSE <<SubSeq(s, k, i - 1)>> \o SplitFrom(s, p, i + Len(p), maxsplit - 1)

Split(s, p) == SplitFrom(s, p, 1, -1)

SplitMax(s, p, maxsplit) == SplitFrom(s, p, 1, maxsplit)

Whitespace == {" ", "\n", "\t", "\r"}

\* s.strip()
Strip(s) ==
    LET keep == {i \in 1..Len(s) : s[i] \notin Whitespace}
    IN  IF keep = {} THEN <<>> ELSE SubSeq(s, Min(keep), Max(keep))

\* s.replace(c, d) for single characters
ReplaceChar(s, c, d) == [i \in 1..Len(s) |-> IF s[i] = c THEN d ELSE s[i]]

\* s.splitlines(): a final newline opens no further line
SplitLines(s) ==
    IF s = <<>> THEN <<>>
    ELSE LET parts == Split(s, <<"\n">>)
         IN  IF parts[Len(parts)] = <<>> THEN SubSeq(parts, 1, Len(parts) - 1) ELSE parts

\* sep.join(parts)
RECURSIVE Join(_, _)
Join(sep, parts) ==
    IF parts = <<>> THEN <<>>
    ELSE IF Len(parts) = 1 THEN parts[1]
    ELSE parts[1] \o sep \o Join(sep, Tail(parts))

\* "".join(parts)
Concat(parts) == Join(<<>>, parts)

Digit == <<"0", "1", "2", "3", "4", "5", "6", "7", "8", "9">>

\* str(n) for n >= 0
RECURSIVE Decimal(_)
Decimal(n) == IF n < 10 THEN <<Digit[n + 1]>> ELSE Decimal(n \div 10) \o <<Digit[(n % 10) + 1]>>

\* the elements of a sequence
Range(f) == {f[i] : i \in DOMAIN f}

\* the orders in which an iteration may return the elements of a set
Orders(S) == {f \in [1..Cardinality(S) -> S] : Range(f) = S}

(***************************************************************************)
(* pathlib                                                                 *)
(***************************************************************************)

\* Path(p).parts of a relative path
Parts(p) == IF p = <<>> THEN <<>> ELSE Split(p, <<"/">>)

\* Path(p).name
Name(p) == LET ps == Parts(p) IN IF ps = <<>> THEN <<>> ELSE ps[Len(ps)]

\* str(Path(p).parent), "." for a root-level path
Parent(p) ==
    LET ps == Parts(p)
    IN  IF Len(ps) <= 1 THEN <<".">> ELSE Join(<<"/">>, SubSeq(ps, 1, Len(ps) - 1))

\* Path(p).suffix: from the last dot of the name, unless it leads or ends the name
Suffix(p) ==
    LET n == Name(p)
        i == RFind(n, ".")
    IN  IF i > 1 /\ i < Len(n) THEN SubSeq(n, i, Len(n)) ELSE <<>>

\* Path(p).stem
Stem(p) == LET n == Name(p) IN SubSeq(n, 1, Len(n) - Len(Suffix(p)))

\* Path(p).with_name(n)
WithName(p, n) ==
    LET ps == Parts(p)
    IN  Join(<<"/">>, SubSeq(ps, 1, Len(ps) - 1) \o <<n>>)

\* name.startswith((".", "#"))
Hidden(n) == n # <<>> /\ n[1] \in {".", "#"}

(***************************************************************************)
(* Text constants of the two wire formats                                  *)
(***************************************************************************)

RuleWidth == 80

\* '#' * 80
Rule == [i \in 1..RuleWidth |-> "#"]

\* "---\nFilename: "
StdMarker == <<"-", "-", "-", "\n", "F", "i", "l", "e", "n", "a", "m", "e", ":", " ">>

\* "\n---\n"
StdClose == <<"\n", "-", "-", "-", "\n">>

\* "####...####\n# FILE "
LlmMarker == Rule \o <<"\n", "#", " ", "F", "I", "L", "E", " ">>

\* "TABLE OF CONTENTS"
TocMarker == <<"T", "A", "B", "L", "E", " ", "O", "F", " ", "C", "O", "N", "T", "E", "N", "T", "S">>

CopySuffix == <<"_", "c", "o", "p", "y">>

IpynbExt == <<".", "i", "p", "y", "n", "b">>

QmdExt == <<".", "q", "m", "d">>

GitIgnore == <<".", "g", "i", "t", "i", "g", "n", "o", "r", "e">>

CellMarker == <<"#", " ", "C", "e", "l", "l", " ">>

MarkdownMarker == <<"#", " ", "M", "a", "r", "k", "d", "o", "w", "n", " ", "C", "e", "l", "l", " ">>

TripleQuote == <<"\"", "\"", "\"">>

NL == <<"\n">>

\* datetime.now().strftime('%Y-%m-%d %H:%M:%S')
creation_date == <<"2", "0", "2", "6", "-", "0", "1", "-", "0", "1", " ", "0", "0", ":", "0", "0", ":", "0", "0">>

\* str(directory), the input directory archive_files is called on
directory == <<"p", "r", "o", "j">>

(***************************************************************************)
(* Notebook transform                                                      *)
(***************************************************************************)

\* A notebook is [cells |-> a sequence of cells]; a cell is
\* [cell_type, source, outputs], source a list of strings.

\* a pruning whose cell-type test never matches: "Code" for "code"
remove_outputs_wrong_type(nb) ==
    [nb EXCEPT !.cells =
        [i \in 1..Len(nb.cells) |->
            IF nb.cells[i].cell_type = "Code"
            THEN [nb.cells[i] EXCEPT !.outputs = <<>>]
            ELSE nb.cells[i]]]

\* remove_outputs_from_code_cells
remove_outputs_from_code_cells(nb) ==
    [nb EXCEPT !.cells =
        [i \in 1..Len(nb.cells) |->
            IF nb.cells[i].cell_type = "code"
            THEN [nb.cells[i] EXCEPT !.outputs = <<>>]
            ELSE nb.cells[i]]]

\* the cell loop of the directory scan: markdown cells are written bare
RECURSIVE FlattenScan(_, _)
FlattenScan(cells, cell_idx) ==
    IF cell_idx > Len(cells) THEN <<>>
    ELSE LET cell == cells[cell_idx]
             cell_content == Concat(cell.source)
             piece ==
                 IF cell.cell_type = "code" /\ cell.source # <<>>
                 THEN IF Strip(cell_content) # <<>>
                      THEN CellMarker \o Decimal(cell_idx) \o NL \o cell_content \o NL \o NL
                      ELSE <<>>
                 ELSE IF cell.cell_type = "markdown" /\ cell.source # <<>>
                 THEN IF Strip(cell_content) # <<>>
                      THEN MarkdownMarker \o Decimal(cell_idx) \o NL \o cell_content \o NL \o NL
                      ELSE <<>>
                 ELSE <<>>
         IN  piece \o FlattenScan(cells, cell_idx + 1)

\* the cell loop of the explicit-file mode: markdown cells are triple-quoted
RECURSIVE FlattenExplicit(_, _)
FlattenExplicit(cells, cell_idx) ==
    IF cell_idx > Len(cells) THEN <<>>
    ELSE LET cell == cells[cell_idx]
             cell_content == Concat(cell.source)
             piece ==
                 IF cell.cell_type = "code" /\ cell.source # <<>>
                 THEN IF Strip(cell_content) # <<>>
                      THEN CellMarker \o Decimal(cell_idx) \o NL \o cell_content \o NL \o NL
                      ELSE <<>>
                 ELSE IF cell.cell_type = "markdown" /\ cell.source # <<>>
                 THEN IF Strip(cell_content) # <<>>
                      THEN MarkdownMarker \o Decimal(cell_idx) \o NL \o TripleQuote \o NL
                           \o cell_content
                           \o (IF EndsWith(cell_content, NL) THEN <<>> ELSE NL)
                           \o TripleQuote \o NL \o NL
                      ELSE <<>>
                 ELSE <<>>
         IN  piece \o FlattenExplicit(cells, cell_idx + 1)

\* the text json.dumps gives a string
JsonString(s) ==
    <<"\"">> \o
    Concat([i \in 1..Len(s) |->
        IF s[i] = "\n" THEN <<"\\", "n">>
        ELSE IF s[i] = "\"" THEN <<"\\", "\"">>
        ELSE IF s[i] = "\\" THEN <<"\\", "\\">>
        ELSE <<s[i]>>]) \o
    <<"\"">>

\* n spaces
Spaces(n) == [i \in 1..n |-> " "]

\* json.dumps(list of strings, indent=4) at nesting depth d
JsonList(l, d) ==
    IF l = <<>> THEN <<"[", "]">>
    ELSE <<"[">> \o NL
         \o Join(<<",">> \o NL, [i \in 1..Len(l) |-> Spaces(4 * (d + 1)) \o JsonString(l[i])])
         \o NL \o Spaces(4 * d) \o <<"]">>

\* the text of a cell type
CellTypeText(cell_type) ==
    IF cell_type = "code" THEN <<"c", "o", "d", "e">>
    ELSE IF cell_type = "markdown" THEN <<"m", "a", "r", "k", "d", "o", "w", "n">>
    ELSE <<"r", "a", "w">>

\* json.dumps(cell, indent=4) inside the list of cells
JsonCell(cell) ==
    Spaces(8) \o <<"{">> \o NL
    \o Spaces(12) \o JsonString(<<"c", "e", "l", "l", "_", "t", "y", "p", "e">>) \o <<":", " ">>
    \o JsonString(CellTypeText(cell.cell_type)) \o <<",">> \o NL
    \o Spaces(12) \o JsonString(<<"s", "o", "u", "r", "c", "e">>) \o <<":", " ">>
    \o JsonList(cell.source, 3) \o <<",">> \o NL
    \o Spaces(12) \o JsonString(<<"o", "u", "t", "p", "u", "t", "s">>) \o <<":", " ">>
    \o JsonList(cell.outputs, 3) \o NL
    \o Spaces(8) \o <<"}">>

\* json.dumps(notebook, indent=4)
json_dumps(nb) ==
    <<"{">> \o NL
    \o Spaces(4) \o JsonString(<<"c", "e", "l", "l", "s">>) \o <<":", " ">>
    \o (IF nb.cells = <<>> THEN <<"[", "]">>
        ELSE <<"[">> \o NL
             \o Join(<<",">> \o NL, [i \in 1..Len(nb.cells) |-> JsonCell(nb.cells[i])])
             \o NL \o Spaces(4) \o <<"]">>)
    \o NL \o <<"}">>

(***************************************************************************)
(* Archive encoder: archive_files                                          *)
(***************************************************************************)

\* A file of the input directory is [kind |-> "text", text |-> ...] or
\* [kind |-> "notebook", nb |-> ...]. A content that may be None is a sequence
\* of no element or one.

TextFile(s) == [kind |-> "text", text |-> s]

NotebookFile(nb) == [kind |-> "notebook", nb |-> nb]

default_exclude_dirs ==
    { <<"b", "u", "i", "l", "d">>,
      <<".", "p", "y", "t", "e", "s", "t", "_", "c", "a", "c", "h", "e">> }

\* file.read() of a file of the directory
ReadText(f) == IF f.kind = "text" THEN f.text ELSE json_dumps(f.nb)

\* a match on the characters of the path, not on its segments
path_matches_characters(rel_path, include_subdirs) ==
    \/ include_subdirs = {}
    \/ \E subdir \in include_subdirs :
          StartsWith(ReplaceChar(rel_path, "\\", "/"), ReplaceChar(subdir, "\\", "/"))

\* path_matches_include_subdirs
path_matches_include_subdirs(rel_path, include_subdirs) ==
    \/ include_subdirs = {}
    \/ \E subdir \in include_subdirs :
          LET subdir_normalized == ReplaceChar(subdir, "\\", "/")
          IN  \/ StartsWith(ReplaceChar(rel_path, "\\", "/"), subdir_normalized \o <<"/">>)
              \/ ReplaceChar(Parent(rel_path), "\\", "/") = subdir_normalized

\* the exclusion check of the walk: some part of the relative path is excluded
ExcludedPath(rel_path, exclude_dirs) ==
    \E i \in 1..Len(Parts(rel_path)) : Parts(rel_path)[i] \in exclude_dirs

\* the content of one scanned file, None for a notebook that cannot be read
ScanContent(rel_path, f, o) ==
    IF Suffix(rel_path) = IpynbExt
    THEN IF f.kind = "notebook"
         THEN IF o.extract_code_only
              THEN <<FlattenScan(f.nb.cells, 1)>>
              ELSE <<json_dumps(remove_outputs_from_code_cells(f.nb))>>
         ELSE <<>>
    ELSE <<ReadText(f)>>

\* the content of one explicitly listed file
ExplicitContent(rel_path, f, o) ==
    IF Suffix(rel_path) = IpynbExt
    THEN IF f.kind = "notebook"
         THEN IF o.extract_code_only
              THEN <<FlattenExplicit(f.nb.cells, 1)>>
              ELSE <<json_dumps(remove_outputs_from_code_cells(f.nb))>>
         ELSE <<>>
    ELSE <<ReadText(f)>>

\* the loop over root_files, taken in the order rs
RECURSIVE RootFiles(_, _, _)
RootFiles(t, rs, i) ==
    IF i > Len(rs) THEN <<>>
    ELSE LET file_name == rs[i]
             skip == \/ file_name \notin DOMAIN t
                     \/ (Hidden(Name(file_name)) /\ Name(file_name) # GitIgnore)
         IN  (IF skip THEN <<>>
              ELSE <<[rel_path |-> file_name, content |-> ReadText(t[file_name])]>>)
             \o RootFiles(t, rs, i + 1)

\* whether one iteration of the walk reaches the read of the file
Selected(rel_path, o, processed_files) ==
    LET name == Name(rel_path)
        is_root_file == Parent(rel_path) = <<".">>
        is_gitignore == name = GitIgnore
    IN  /\ ~(o.include_subdirectories
             /\ ExcludedPath(rel_path, o.exclude_dirs \cup default_exclude_dirs))
        /\ ~(/\ o.include_subdirs # {}
             /\ ~path_matches_include_subdirs(rel_path, o.include_subdirs)
             /\ ~is_root_file)
        /\ (is_gitignore \/ (~Hidden(name) /\ Suffix(rel_path) \in o.file_types))
        /\ ~(is_root_file /\ name \in o.root_files)
        /\ rel_path \notin processed_files
        /\ (\/ o.file_prefixes = {}
            \/ is_gitignore
            \/ \E prefix \in o.file_prefixes : StartsWith(name, prefix))

\* the walk, over the files in the order the iterator returns them
RECURSIVE Walk(_, _, _, _, _)
Walk(t, walk, i, o, acc) ==
    IF i > Len(walk) THEN acc
    ELSE LET rel_path == walk[i]
             processed_files == {acc[k].rel_path : k \in 1..Len(acc)}
             content == ScanContent(rel_path, t[rel_path], o)
         IN  IF Selected(rel_path, o, processed_files) /\ content # <<>>
             THEN Walk(t, walk, i + 1, o, Append(acc, [rel_path |-> rel_path, content |-> content[1]]))
             ELSE Walk(t, walk, i + 1, o, acc)

\* what the file iterator returns: rglob("*") or glob("*"), files only
Walked(t, o) ==
    IF o.include_subdirectories THEN DOMAIN t
    ELSE {p \in DOMAIN t : Len(Parts(p)) = 1}

\* the loop over explicit_files
RECURSIVE ExplicitFiles(_, _, _, _)
ExplicitFiles(t, es, i, o) ==
    IF i > Len(es) THEN <<>>
    ELSE LET file_name == es[i]
             content == IF file_name \in DOMAIN t
                        THEN ExplicitContent(file_name, t[file_name], o)
                        ELSE <<>>
         IN  (IF content = <<>> THEN <<>>
              ELSE <<[rel_path |-> file_name, content |-> content[1]]>>)
             \o ExplicitFiles(t, es, i + 1, o)

\* a file list left in the order the scan found it
KeepScanOrder(l) == l

\* file_list.sort(key=lambda x: str(x[0])): a stable sort by the path string
RECURSIVE SortByPath(_)
SortByPath(l) ==
    IF l = <<>> THEN <<>>
    ELSE LET front == SortByPath(SubSeq(l, 1, Len(l) - 1))
             x == l[Len(l)]
             k == Cardinality({j \in 1..Len(front) : ~StrLess(x.rel_path, front[j].rel_path)})
         IN  SubSeq(front, 1, k) \o <<x>> \o SubSeq(front, k + 1, Len(front))

\* a file list emitted in the order the loops found the files
FileListAsFound(t, o, rs, walk) ==
    IF o.explicit
    THEN ExplicitFiles(t, o.explicit_files, 1, o)
    ELSE Walk(t, walk, 1, o, RootFiles(t, rs, 1))

\* the file list archive_files emits; rs and walk are the iteration orders
FileList(t, o, rs, walk) ==
    SortByPath(
        IF o.explicit
        THEN ExplicitFiles(t, o.explicit_files, 1, o)
        ELSE Walk(t, walk, 1, o, RootFiles(t, rs, 1)))

\* the preamble
Preamble(o) ==
    <<"#", " ", "A", "r", "c", "h", "i", "v", "e", " ", "c", "r", "e", "a", "t", "e", "d", " ", "o", "n", ":", " ">>
    \o creation_date \o NL \o NL
    \o (IF o.llm_friendly
        THEN <<"#", " ", "L", "L", "M", "-", "F", "R", "I", "E", "N", "D", "L", "Y", " ", "C", "O", "D", "E", " ", "A", "R", "C", "H", "I", "V", "E", "\n">>
             \o <<"#", " ", "G", "e", "n", "e", "r", "a", "t", "e", "d", " ", "f", "r", "o", "m", ":", " ">>
             \o directory \o NL
             \o <<"#", " ", "D", "a", "t", "e", ":", " ">> \o creation_date \o NL \o NL
        ELSE <<"#", " ", "S", "t", "a", "n", "d", "a", "r", "d", " ", "A", "r", "c", "h", "i", "v", "e", " ", "F", "o", "r", "m", "a", "t", "\n", "\n">>)

\* the table of contents
TableOfContents(l) ==
    <<"#", " ">> \o TocMarker \o NL
    \o Join(NL, [idx \in 1..Len(l) |-> Decimal(idx) \o <<".", " ">> \o l[idx].rel_path])
    \o NL \o NL

\* the section of file idx
SectionText(l, idx, o) ==
    IF o.llm_friendly
    THEN Rule \o NL \o <<"#", " ", "F", "I", "L", "E", " ">> \o Decimal(idx) \o <<":", " ">>
         \o l[idx].rel_path \o NL \o Rule \o NL \o NL \o l[idx].content \o NL \o NL
    ELSE StdMarker \o l[idx].rel_path \o StdClose \o l[idx].content \o NL \o NL

\* the sections
Sections(l, o) == Concat([idx \in 1..Len(l) |-> SectionText(l, idx, o)])

\* all_contents, the text archive_files writes
ArchiveText(l, o) == Preamble(o) \o TableOfContents(l) \o Sections(l, o)

\* concatenate_files: the content of one file, None when the file is skipped
ConcatContent(rel_path, f, file_types) ==
    IF Suffix(rel_path) = IpynbExt
    THEN IF f.kind = "notebook"
         THEN <<json_dumps(remove_outputs_from_code_cells(f.nb))>>
         ELSE <<>>
    ELSE IF Suffix(rel_path) \in file_types
    THEN <<ReadText(f)>>
    ELSE <<>>

\* concatenate_files: the loop over directory.rglob("*"), in the order walk
RECURSIVE ConcatFiles(_, _, _, _)
ConcatFiles(t, walk, i, file_types) ==
    IF i > Len(walk) THEN <<>>
    ELSE LET rel_path == walk[i]
             content == IF Hidden(Name(rel_path)) THEN <<>>
                        ELSE ConcatContent(rel_path, t[rel_path], file_types)
         IN  (IF content = <<>> THEN <<>>
              ELSE <<[rel_path |-> rel_path, content |-> content[1]]>>)
             \o ConcatFiles(t, walk, i + 1, file_types)

\* all_contents, the text concatenate_files writes
ConcatText(l) ==
    Concat([idx \in 1..Len(l) |->
        StdMarker \o l[idx].rel_path \o StdClose \o l[idx].content \o NL \o NL])

(***************************************************************************)
(* Archive decoders                                                        *)
(***************************************************************************)

\* A directory is a function from the relative paths of its files to their
\* contents; its subdirectories are the proper prefixes of those paths.

\* path.is_dir() inside the directory; the empty path is the directory itself
IsDir(fs, p) == p = <<>> \/ \E q \in DOMAIN fs : StartsWith(q, p \o <<"/">>)

\* path.exists()
Exists(fs, p) == p \in DOMAIN fs \/ IsDir(fs, p)

\* output_directory / filename, as a path relative to output_directory:
\* empty and "." segments vanish, an absolute filename replaces the directory
OutPath(filename) ==
    IF filename # <<>> /\ filename[1] = "/" THEN filename
    ELSE LET ps == Parts(filename)
             keep == SelectSeq(ps, LAMBDA x : x # <<>> /\ x # <<".">>)
         IN  Join(<<"/">>, keep)

\* path.parent.mkdir(parents=True, exist_ok=True) succeeds: no ancestor is a file
CanMkdirParent(fs, p) ==
    LET ps == Parts(p)
    IN  \A k \in 1..(Len(ps) - 1) : Join(<<"/">>, SubSeq(ps, 1, k)) \notin DOMAIN fs

\* path.with_suffix(path.suffix + "_copy") raises ValueError when the path has
\* no suffix: the new suffix then does not start with a dot
WithSuffixRaises(p) == Suffix(p) = <<>>

\* path.with_suffix(path.suffix + "_copy")
WithCopySuffix(p) == WithName(p, Stem(p) \o Suffix(p) \o CopySuffix)

\* path.with_stem(path.stem + "_copy")
WithCopyStem(p) == WithName(p, Stem(p) \o CopySuffix \o Suffix(p))

\* the file system after path.open("w").write(content)
WriteFile(fs, p, content) ==
    [q \in DOMAIN fs \cup {p} |-> IF q = p THEN [kind |-> "text", text |-> content] ELSE fs[q]]

\* the file system after json.dump(notebook, path.open("w"))
WriteNotebook(fs, p, nb) ==
    [q \in DOMAIN fs \cup {p} |-> IF q = p THEN [kind |-> "notebook", nb |-> nb] ELSE fs[q]]

\* output_directory, as a path relative to itself
output_directory == <<".">>

\* the parent directory of a path, the empty path for a root-level one
ParentDir(p) == LET ps == Parts(p) IN Join(<<"/">>, SubSeq(ps, 1, Len(ps) - 1))

\* the directories path.parent.mkdir(parents=True, exist_ok=True) ensures
MadeParent(p) == IF ParentDir(p) = <<>> THEN {output_directory} ELSE {ParentDir(p)}

\* the decoder's state before it touches the file system
Start(fs) == [fs |-> fs, writes |-> <<>>, parsed |-> <<>>, raised |-> FALSE, made |-> {}]

\* the decoder's state after output_directory.mkdir(parents=True, exist_ok=True)
Ensured(fs) == [Start(fs) EXCEPT !.made = {output_directory}]

\* one section of unpack_files
UnpackSection(st, section, idx, replace) ==
    LET parts == SplitMax(section, StdClose, 1)
    IN  IF Len(parts) < 2
        \* the handler logs the name of the section before: there is none at the first
        THEN IF idx = 1 THEN [st EXCEPT !.raised = TRUE] ELSE st
        ELSE LET filename == parts[1]
                 content == parts[2]
                 normalized_filename == ReplaceChar(Strip(filename), "\\", "/")
                 output_path == OutPath(normalized_filename)
                 st1 == [st EXCEPT !.parsed = Append(@, [section |-> idx, filename |-> filename,
                                                        content |-> content])]
                 collide == Exists(st.fs, output_path) /\ ~replace
                 target == IF collide THEN WithCopySuffix(output_path) ELSE output_path
             IN  IF ~CanMkdirParent(st.fs, output_path)
                 THEN st1
                 ELSE IF (collide /\ WithSuffixRaises(output_path)) \/ IsDir(st.fs, target)
                 THEN [st1 EXCEPT !.made = @ \cup MadeParent(output_path)]
                 ELSE [st1 EXCEPT
                         !.made = @ \cup MadeParent(output_path),
                         !.fs = WriteFile(@, target, content),
                         !.writes = Append(@, [section |-> idx, path |-> target,
                                               content |-> content,
                                               existed |-> Exists(st.fs, target)])]

RECURSIVE UnpackSections(_, _, _, _)
UnpackSections(st, sections, idx, replace) ==
    IF idx > Len(sections) \/ st.raised THEN st
    ELSE UnpackSections(UnpackSection(st, sections[idx], idx, replace), sections, idx + 1, replace)

\* unpack_files
unpack_files(fs, combined_content, replace) ==
    LET sections == Tail(Split(combined_content, StdMarker))
    IN  UnpackSections(Ensured(fs), sections, 1, replace)

\* one section of unpack_llm_archive
UnpackLlmSection(st, section, idx, replace) ==
    LET lines == SplitMax(section, NL, 2)
    IN  IF Len(lines) < 3 THEN st
        ELSE IF ~Contains(lines[1], <<":", " ">>) THEN st
        ELSE LET filename == Strip(SplitMax(lines[1], <<":", " ">>, 1)[2])
                 content == lines[3]
                 file_path == OutPath(filename)
                 st1 == [st EXCEPT !.parsed = Append(@, [section |-> idx, filename |-> filename,
                                                        content |-> content])]
             IN  IF Exists(st.fs, file_path) /\ ~replace THEN st1
                 ELSE IF ~CanMkdirParent(st.fs, file_path) THEN [st1 EXCEPT !.raised = TRUE]
                 ELSE IF IsDir(st.fs, file_path)
                 THEN [st1 EXCEPT !.made = @ \cup MadeParent(file_path)]
                 ELSE [st1 EXCEPT
                         !.made = @ \cup MadeParent(file_path),
                         !.fs = WriteFile(@, file_path, content),
                         !.writes = Append(@, [section |-> idx, path |-> file_path,
                                               content |-> content,
                                               existed |-> Exists(st.fs, file_path)])]

RECURSIVE UnpackLlmSections(_, _, _, _)
UnpackLlmSections(st, sections, idx, replace) ==
    IF idx > Len(sections) \/ st.raised THEN st
    ELSE UnpackLlmSections(UnpackLlmSection(st, sections[idx], idx, replace), sections, idx + 1, replace)

\* unpack_llm_archive
unpack_llm_archive(fs, content, replace) ==
    LET sections == Split(content, LlmMarker)
    IN  IF Len(sections) <= 1 THEN Start(fs)
        ELSE UnpackLlmSections(Ensured(fs), Tail(sections), 1, replace)

\* f.read(2000)
DetectPrefix == 2000

\* auto_detect_archive_format
auto_detect_archive_format(content) ==
    LET head == SubSeq(content, 1, IF Len(content) < DetectPrefix THEN Len(content) ELSE DetectPrefix)
    IN  IF Contains(head, LlmMarker) THEN "llm-friendly"
        ELSE IF Contains(head, StdMarker) THEN "standard"
        ELSE "standard"

\* unpack_files_auto, which run_unpack calls
unpack_files_auto(fs, content, replace) ==
    IF auto_detect_archive_format(content) = "llm-friendly"
    THEN unpack_llm_archive(fs, content, replace)
    ELSE unpack_files(fs, content, replace)

(***************************************************************************)
(* Notebook reconstruction                                                 *)
(***************************************************************************)

\* the notebooks a notebook file of the model may hold
MaxCells == 2

CodeCell(source, outputs) == [cell_type |-> "code", source |-> source, outputs |-> outputs]

MarkdownCell(source) == [cell_type |-> "markdown", source |-> source, outputs |-> <<>>]

CellChoices ==
    { CodeCell(<< <<"x", "=", "1">> >>, << <<"1">> >>),
      CodeCell(<< <<"a", "\n">>, <<"\n">>, <<"b", "\n">> >>, <<>>),
      CodeCell(<< <<"#", " ", "C", "e", "l", "l", " ", "x", "\n">>, <<"y">> >>, << <<"2">> >>),
      MarkdownCell(<< <<"#", " ", "T">> >>),
      MarkdownCell(<< <<"t", "\n">> >>) }

Notebooks ==
    {[cells |-> c] : c \in UNION {[1..n -> CellChoices] : n \in 0..MaxCells}}

\* the JSON text of every notebook of the model
JsonTexts == [nb \in Notebooks |-> json_dumps(nb)]

\* json.loads(text): the notebook whose JSON text this is, None when there is none
json_loads(body) ==
    LET t == Strip(body)
        hits == {nb \in Notebooks : JsonTexts[nb] = t}
    IN  IF hits = {} THEN <<>> ELSE <<CHOOSE nb \in hits : TRUE>>

\* the accumulated lines without the blank ones at their end
RECURSIVE TrimTrailingBlank(_)
TrimTrailingBlank(ls) ==
    IF ls # <<>> /\ Strip(ls[Len(ls)]) = <<>>
    THEN TrimTrailingBlank(SubSeq(ls, 1, Len(ls) - 1))
    ELSE ls

\* the marker scan of extract_notebooks_to_ipynb, from line i on
RECURSIVE MarkerScan(_, _, _)
MarkerScan(content_lines, i, cells) ==
    IF i > Len(content_lines) THEN cells
    ELSE IF StartsWith(content_lines[i], MarkdownMarker)
    THEN IF i + 1 <= Len(content_lines) /\ Strip(content_lines[i + 1]) = TripleQuote
         THEN LET start == i + 2
                  ends == {k \in start..Len(content_lines) : Strip(content_lines[k]) = TripleQuote}
                  stop == IF ends = {} THEN Len(content_lines) + 1 ELSE Min(ends)
                  markdown_content == [k \in 1..(stop - start) |-> content_lines[start + k - 1] \o NL]
              IN  MarkerScan(content_lines, stop + 1,
                             Append(cells, MarkdownCell(markdown_content)))
         ELSE MarkerScan(content_lines, i + 2, cells)
    ELSE IF StartsWith(content_lines[i], CellMarker)
    THEN LET start == i + 1
             ends == {k \in start..Len(content_lines) :
                         \/ StartsWith(content_lines[k], CellMarker)
                         \/ StartsWith(content_lines[k], MarkdownMarker)}
             stop == IF ends = {} THEN Len(content_lines) + 1 ELSE Min(ends)
             code_content ==
                 TrimTrailingBlank([k \in 1..(stop - start) |-> content_lines[start + k - 1] \o NL])
         IN  MarkerScan(content_lines, stop,
                        IF code_content # <<>> THEN Append(cells, CodeCell(code_content, <<>>))
                        ELSE cells)
    ELSE MarkerScan(content_lines, i + 1, cells)

\* the "N: filename" line of an llm-friendly section: the filename, None without ": "
FileInfoName(line) ==
    LET file_info == Strip(line)
    IN  IF Contains(file_info, <<":", " ">>)
        THEN <<Strip(SplitMax(file_info, <<":", " ">>, 1)[2])>>
        ELSE <<>>

\* one section of extract_notebooks_to_ipynb
ExtractSection(st, section, idx, replace) ==
    LET lines == SplitMax(section, NL, 2)
    IN  IF Len(lines) < 3 THEN st
        ELSE IF FileInfoName(lines[1]) = <<>> THEN st
        ELSE LET filename == FileInfoName(lines[1])[1]
                 file_content == lines[3]
                 output_path == OutPath(filename)
                 collide == Exists(st.fs, output_path) /\ ~replace
                 target == IF collide THEN WithCopyStem(output_path) ELSE output_path
                 is_json == StartsWith(Strip(file_content), <<"{">>)
                 loaded == json_loads(file_content)
                 nb == IF is_json THEN loaded[1]
                       ELSE [cells |-> MarkerScan(SplitLines(file_content), 1, <<>>)]
                 st1 == [st EXCEPT !.parsed = Append(@, [section |-> idx, filename |-> filename,
                                                        content |-> file_content])]
             IN  IF ~EndsWith(filename, IpynbExt) THEN st
                 ELSE IF ~CanMkdirParent(st.fs, output_path) THEN [st1 EXCEPT !.raised = TRUE]
                 ELSE IF (is_json /\ loaded = <<>>) \/ IsDir(st.fs, target)
                 THEN [st1 EXCEPT !.made = @ \cup MadeParent(output_path)]
                 ELSE [st1 EXCEPT
                         !.made = @ \cup MadeParent(output_path),
                         !.fs = WriteNotebook(@, target, nb),
                         !.writes = Append(@, [section |-> idx, path |-> target,
                                               content |-> file_content,
                                               existed |-> Exists(st.fs, target)])]

RECURSIVE ExtractSections(_, _, _, _)
ExtractSections(st, sections, idx, replace) ==
    IF idx > Len(sections) \/ st.raised THEN st
    ELSE ExtractSections(ExtractSection(st, sections[idx], idx, replace), sections, idx + 1, replace)

\* a reconstruction that takes every text for a complete archive
AnyContent(content) == TRUE

\* "TABLE OF CONTENTS" in content
HasTableOfContents(content) == Contains(content, TocMarker)

\* extract_notebooks_to_ipynb, from the archive text on
ExtractToIpynb(fs, content, replace) ==
    IF ~HasTableOfContents(content) THEN Start(fs)
    ELSE LET sections == Split(content, LlmMarker)
         IN  IF Len(sections) < 2 THEN Ensured(fs)
             ELSE ExtractSections(Ensured(fs), Tail(sections), 1, replace)

\* the line loop of extract_notebooks_and_quarto; a cell type of "None" is the
\* one of lines that stand before the first marker
RECURSIVE LineScan(_, _, _, _, _)
LineScan(lines, i, cells, current_cell, cell_type) ==
    LET flushed ==
            IF current_cell # <<>>
            THEN Append(cells, [cell_type |-> cell_type, source |-> current_cell, outputs |-> <<>>])
            ELSE cells
    IN  IF i > Len(lines) THEN flushed
        ELSE IF StartsWith(lines[i], CellMarker)
        THEN LineScan(lines, i + 1, flushed, <<>>, "code")
        ELSE IF StartsWith(lines[i], MarkdownMarker)
        THEN LineScan(lines, i + 1, flushed, <<>>, "markdown")
        ELSE LineScan(lines, i + 1, cells, Append(current_cell, lines[i] \o NL), cell_type)

\* the write of one section of extract_notebooks_and_quarto to its target
QuartoWrite(st, idx, is_llm_friendly, filename, content, target) ==
    LET is_ipynb == EndsWith(filename, IpynbExt)
        st1 == [st EXCEPT !.parsed = Append(@, [section |-> idx, filename |-> filename,
                                               content |-> content])]
    IN  IF is_ipynb /\ ~is_llm_friendly /\ json_loads(content) = <<>> THEN st1
        \* open() fails when the parent directory is missing or the target is one
        ELSE IF ~IsDir(st.fs, ParentDir(target)) \/ IsDir(st.fs, target) THEN st1
        ELSE [st1 EXCEPT
                !.writes = Append(@, [section |-> idx, path |-> target, content |-> content,
                                      existed |-> Exists(st.fs, target)]),
                !.fs = IF ~is_ipynb THEN WriteFile(@, target, content)
                       ELSE IF is_llm_friendly
                       THEN WriteNotebook(@, target,
                                [cells |-> LineScan(SplitLines(content), 1, <<>>, <<>>, "None")])
                       ELSE WriteNotebook(@, target, json_loads(content)[1])]

\* the target of one section of extract_notebooks_and_quarto
QuartoFile(st, idx, replace, is_llm_friendly, filename, content, output_path) ==
    IF ~(EndsWith(filename, IpynbExt) \/ EndsWith(filename, QmdExt)) THEN st
    ELSE QuartoWrite(st, idx, is_llm_friendly, filename, content,
                     IF Exists(st.fs, output_path) /\ ~replace
                     THEN WithCopyStem(output_path) ELSE output_path)

\* one section of extract_notebooks_and_quarto
ExtractQuartoSection(st, section, idx, replace, is_llm_friendly) ==
    LET lines == SplitMax(section, NL, 2)
        parts == SplitMax(section, StdClose, 1)
    IN  IF is_llm_friendly
        THEN IF Len(lines) < 3 \/ FileInfoName(lines[1]) = <<>> THEN st
             ELSE QuartoFile(st, idx, replace, is_llm_friendly, FileInfoName(lines[1])[1],
                             lines[3], OutPath(FileInfoName(lines[1])[1]))
        ELSE IF Len(parts) < 2 THEN st
             ELSE QuartoFile(st, idx, replace, is_llm_friendly, Strip(parts[1]),
                             parts[2], OutPath(Strip(parts[1])))

RECURSIVE ExtractQuartoSections(_, _, _, _, _)
ExtractQuartoSections(st, sections, idx, replace, is_llm_friendly) ==
    IF idx > Len(sections) THEN st
    ELSE ExtractQuartoSections(
             ExtractQuartoSection(st, sections[idx], idx, replace, is_llm_friendly),
             sections, idx + 1, replace, is_llm_friendly)

\* extract_notebooks_and_quarto, from the archive text on
ExtractAndQuarto(fs, content, replace) ==
    IF ~HasTableOfContents(content) THEN Start(fs)
    ELSE LET llm_sections == Split(content, LlmMarker)
             is_llm_friendly == Len(llm_sections) > 1
             sections == IF is_llm_friendly THEN llm_sections
                         ELSE Tail(Split(content, StdMarker))
         IN  ExtractQuartoSections(Ensured(fs), sections, 1, replace, is_llm_friendly)

(***************************************************************************)
(* Chunk splitter and reassembly                                           *)
(***************************************************************************)

\* Path(file_path).stem and .suffix of the file that is split
file_name == <<"a", "r", "c">>

file_ext == <<".", "t", "x", "t">>

DocOpen == <<"<", "D", "O", "C", "U", "M", "E", "N", "T", ">">>

DocClose == <<"<", "/", "D", "O", "C", "U", "M", "E", "N", "T", ">">>

PartMarker == <<"#", " ", "P", "a", "r", "t", " ">>

\* line_chars
LineChars(line) == Len(line) + 1

\* the count the splitter keeps for a chunk: current_chars
RECURSIVE ChunkChars(_)
ChunkChars(chunk) == IF chunk = <<>> THEN 0 ELSE LineChars(chunk[1]) + ChunkChars(Tail(chunk))

\* a line loop that tests the count before the line is added to it
RECURSIVE SplitLoopLate(_, _, _, _, _)
SplitLoopLate(lines, i, limit, done, current_chunk) ==
    IF i > Len(lines)
    THEN IF current_chunk # <<>> THEN Append(done, current_chunk) ELSE done
    ELSE IF ChunkChars(current_chunk) > limit /\ current_chunk # <<>>
    THEN SplitLoopLate(lines, i + 1, limit, Append(done, current_chunk), <<lines[i]>>)
    ELSE SplitLoopLate(lines, i + 1, limit, done, Append(current_chunk, lines[i]))

\* a line loop that does not write the chunk left when the lines run out
RECURSIVE SplitLoopNoFinalFlush(_, _, _, _, _)
SplitLoopNoFinalFlush(lines, i, limit, done, current_chunk) ==
    IF i > Len(lines) THEN done
    ELSE IF ChunkChars(current_chunk) + LineChars(lines[i]) > limit /\ current_chunk # <<>>
    THEN SplitLoopNoFinalFlush(lines, i + 1, limit, Append(done, current_chunk), <<lines[i]>>)
    ELSE SplitLoopNoFinalFlush(lines, i + 1, limit, done, Append(current_chunk, lines[i]))

\* the loop over the lines: the chunks flushed so far and the current one
RECURSIVE SplitLoop(_, _, _, _, _)
SplitLoop(lines, i, limit, done, current_chunk) ==
    IF i > Len(lines)
    THEN IF current_chunk # <<>> THEN Append(done, current_chunk) ELSE done
    ELSE IF ChunkChars(current_chunk) + LineChars(lines[i]) > limit /\ current_chunk # <<>>
    THEN SplitLoop(lines, i + 1, limit, Append(done, current_chunk), <<lines[i]>>)
    ELSE SplitLoop(lines, i + 1, limit, done, Append(current_chunk, lines[i]))

\* whether split_file copies the file as one document
Unsplit(content, limit) == Len(content) <= limit

\* the chunk bodies split_file emits, as line sequences, in part order
Chunks(content, limit) ==
    IF Unsplit(content, limit) THEN <<SplitLines(content)>>
    ELSE SplitLoop(SplitLines(content), 1, limit, <<>>, <<>>)

\* the name of chunk file part_num
PartName(part_num) ==
    file_name \o <<"_", "p", "a", "r", "t">> \o Decimal(part_num) \o file_ext

\* the files split_file writes
SplitFiles(content, limit) ==
    IF Unsplit(content, limit)
    THEN (file_name \o file_ext) :> (DocOpen \o NL \o content \o NL \o DocClose)
    ELSE LET cs == Chunks(content, limit)
         IN  [n \in {PartName(k) : k \in 1..Len(cs)} |->
                LET part_num == CHOOSE k \in 1..Len(cs) : PartName(k) = n
                IN  DocOpen \o NL \o PartMarker \o Decimal(part_num) \o <<" ", "o", "f", " ">>
                    \o file_name \o file_ext \o NL
                    \o Join(NL, cs[part_num]) \o NL \o DocClose]

\* sorted(names, key=lambda x: x.name)
RECURSIVE SortNames(_)
SortNames(S) ==
    IF S = {} THEN <<>>
    ELSE LET first == CHOOSE n \in S : \A m \in S \ {n} : StrLess(n, m)
         IN  <<first>> \o SortNames(S \ {first})

\* the lines of one chunk file that the reassembly keeps
CleanedLines(split_content) ==
    SelectSeq(SplitLines(split_content),
              LAMBDA line : /\ Strip(line) \notin {DocOpen, DocClose}
                            /\ ~StartsWith(line, PartMarker))

\* the reassembly of a chunk directory: the *.txt files in the order of their names
Reassemble(dir) ==
    LET split_files == SortNames({n \in DOMAIN dir : EndsWith(n, <<".", "t", "x", "t">>)})
    IN  Concat([k \in 1..Len(split_files) |-> Join(NL, CleanedLines(dir[split_files[k]])) \o NL])

(***************************************************************************)
(* The inputs of the model                                                 *)
(***************************************************************************)

\* the most files a modelled input directory holds
MaxFiles == 2

a_yaml == <<"a", ".", "y", "a", "m", "l">>
b_py == <<"b", ".", "p", "y">>
build_x_py == <<"b", "u", "i", "l", "d", "/", "x", ".", "p", "y">>
src_x_py == <<"s", "r", "c", "/", "x", ".", "p", "y">>
src_gen_z_py == <<"s", "r", "c", "/", "g", "e", "n", "/", "z", ".", "p", "y">>
m_py == <<"m", ".", "p", "y">>
b_py_copy == <<"b", ".", "p", "y", "_", "c", "o", "p", "y">>

\* the files an input directory is drawn from
Files ==
    (a_yaml :> TextFile(<<"k", ":", " ", "v">>)) @@
    (b_py :> TextFile(<<"x", "=", "1">>)) @@
    (build_x_py :> TextFile(<<"y", "=", "2", "\n">>)) @@
    (src_x_py :> TextFile(<<>>)) @@
    (src_gen_z_py :> TextFile(<<"z">>)) @@
    (m_py :> TextFile(LlmMarker \o <<"1", ":", " ", "b", ".", "p", "y", "\n">> \o Rule \o NL))

\* the input directories
Trees ==
    {[p \in S |-> Files[p]] : S \in {S \in SUBSET DOMAIN Files : Cardinality(S) <= MaxFiles}}

\* file_types as the command line defaults it
DefaultFileTypes ==
    { <<".", "y", "a", "m", "l">>, <<".", "p", "y">>, <<".", "r">>, IpynbExt, QmdExt }

\* the calls of archive_files that scan the directory
ScanOptions ==
    [ llm_friendly : BOOLEAN,
      include_subdirectories : BOOLEAN,
      extract_code_only : {FALSE},
      file_types : {DefaultFileTypes},
      file_prefixes : {{}},
      exclude_dirs : {{}, {<<"b", "u", "i", "l", "d">>, <<"g", "e", "n">>}},
      root_files : {{}, {b_py}, {build_x_py}},
      include_subdirs : {{}, {<<"s", "r", "c">>}},
      explicit : {FALSE},
      explicit_files : {<<>>},
      split_output : {FALSE} ]

\* the calls of archive_files with an explicit list of files
ExplicitOptions ==
    [ llm_friendly : BOOLEAN,
      include_subdirectories : {TRUE},
      extract_code_only : {FALSE},
      file_types : {DefaultFileTypes},
      file_prefixes : {{}},
      exclude_dirs : {{}},
      root_files : {{}},
      include_subdirs : {{}},
      explicit : {TRUE},
      explicit_files : {<<b_py, b_py>>, <<src_x_py, a_yaml>>},
      split_output : {FALSE} ]

Options == ScanOptions \cup ExplicitOptions

NoOptions == CHOOSE o \in ScanOptions : TRUE

EmptyDir == <<>>

\* what the output directory may hold before a decode
OutDirs ==
    { EmptyDir,
      (b_py :> TextFile(<<"o", "l", "d">>)),
      (b_py :> TextFile(<<"o", "l", "d">>)) @@ (b_py_copy :> TextFile(<<"o", "l", "d", "e", "r">>)) }

NoNotebook == [cells |-> <<>>]

nb_ipynb == <<"n", "b", ".", "i", "p", "y", "n", "b">>

\* the calls of archive_files on a directory that holds one notebook
NotebookOptions ==
    [ llm_friendly : BOOLEAN,
      include_subdirectories : {TRUE},
      extract_code_only : BOOLEAN,
      file_types : {DefaultFileTypes},
      file_prefixes : {{}},
      exclude_dirs : {{}},
      root_files : {{}},
      include_subdirs : {{}},
      explicit : BOOLEAN,
      explicit_files : {<<nb_ipynb>>},
      split_output : {FALSE} ]

\* what the output directory may hold before a reconstruction
NotebookOutDirs == { EmptyDir, (nb_ipynb :> NotebookFile(NoNotebook)) }

\* the most lines a modelled text to split has, and the largest limit
MaxLines == 3

MaxLimit == 4

\* the lines a text to split is made of
LineChoices ==
    { <<>>, <<"a">>, <<"b", "b">>,
      <<"#", " ", "P", "a", "r", "t", " ", "9">>,
      <<"<", "D", "O", "C", "U", "M", "E", "N", "T", ">">> }

\* a text of eleven one-letter lines, which small limits split into ten parts
\* and more
LongText ==
    Join(NL, << <<"a">>, <<"b">>, <<"c">>, <<"d">>, <<"e">>, <<"f">>, <<"g">>, <<"h">>,
                <<"i">>, <<"j">>, <<"k">> >>)

\* the texts to split: some lines, with or without a final newline
Texts ==
    {Join(NL, ls) \o tail :
        ls \in UNION {[1..n -> LineChoices] : n \in 0..MaxLines}, tail \in {<<>>, NL}}
    \cup {LongText}

(***************************************************************************)
(* The encode and decode session                                           *)
(***************************************************************************)

codecVars == <<tree, opts, file_list, archive, outdir0, outdir, replace_existing,
               detected, parsed, writes>>

splitVars == <<text, max_chars, chunks, splitdir, reassembled>>

nbVars == <<notebook0, notebook, notebook1>>

fsVars == <<is_dir, made, error>>

scanVars == <<scan_lines, scan_index, scan_cells, scan_body>>

\* no marker scan under way
NoScan == scan_lines = <<>> /\ scan_index = 1 /\ scan_cells = <<>> /\ scan_body = <<>>

\* output_file_path.parent and the default split directory, split_<stem>
output_parent == <<"o", "u", "t">>

split_dir == output_parent \o <<"/", "s", "p", "l", "i", "t", "_">> \o file_name

\* max_tokens as archive_files defaults it
max_tokens == 100000

\* the parameters of split_file, and the keywords archive_files calls it with
split_file_parameters == {"file_path", "max_chars", "output_dir"}

split_call_keywords == {"max_tokens", "output_dir"}

\* the call raises TypeError when a keyword names no parameter of the function
SplitCallRaises == ~(split_call_keywords \subseteq split_file_parameters)

\* f"Input directory does not exist: {directory}"
NoInputDirectory ==
    <<"I", "n", "p", "u", "t", " ", "d", "i", "r", "e", "c", "t", "o", "r", "y", " ",
      "d", "o", "e", "s", " ", "n", "o", "t", " ", "e", "x", "i", "s", "t", ":", " ">>
    \o directory

\* the message of the TypeError of the split_file call
UnexpectedKeyword ==
    <<"s", "p", "l", "i", "t", "_", "f", "i", "l", "e", "(", ")", " ", "g", "o", "t", " ",
      "a", "n", " ", "u", "n", "e", "x", "p", "e", "c", "t", "e", "d", " ",
      "k", "e", "y", "w", "o", "r", "d", " ", "a", "r", "g", "u", "m", "e", "n", "t", " ",
      "'", "m", "a", "x", "_", "t", "o", "k", "e", "n", "s", "'">>

\* directories made although the input directory is missing
MadeBeforeCheck(exists, o) ==
    {output_parent} \cup (IF o.split_output THEN {split_dir} ELSE {})

\* the directories archive_files makes: the parent of the output file once the
\* input directory was found, and the split directory when split_output is set
MadeByArchive(exists, o) ==
    IF ~exists THEN {}
    ELSE {output_parent} \cup (IF o.split_output THEN {split_dir} ELSE {})

Init ==
    /\ pc = "start"
    /\ tree \in Trees
    /\ opts = NoOptions
    /\ file_list = <<>>
    /\ archive = <<>>
    /\ outdir0 = EmptyDir
    /\ outdir = EmptyDir
    /\ replace_existing = FALSE
    /\ detected = "none"
    /\ parsed = <<>>
    /\ writes = <<>>
    /\ text = <<>>
    /\ max_chars = 0
    /\ chunks = <<>>
    /\ splitdir = EmptyDir
    /\ reassembled = <<>>
    /\ notebook0 = NoNotebook
    /\ notebook = NoNotebook
    /\ notebook1 = NoNotebook
    /\ is_dir = TRUE
    /\ made = {}
    /\ error = <<>>
    /\ NoScan

\* archive_files(directory, output_file_path, ...) on an existing directory
ArchiveWith(options) ==
    /\ pc = "start"
    /\ \E o \in options :
       \E rs \in Orders(o.root_files) :
       \E walk \in Orders(Walked(tree, o)) :
          /\ opts' = o
          /\ made' = MadeByArchive(is_dir, o)
          /\ IF ~is_dir
             \* FileNotFoundError, raised before the output directory is made
             THEN /\ pc' = "raised"
                  /\ error' = NoInputDirectory
                  /\ UNCHANGED <<file_list, archive, splitdir>>
             ELSE /\ file_list' = FileList(tree, o, rs, walk)
                  /\ archive' = ArchiveText(file_list', o)
                  /\ splitdir' = IF o.split_output /\ ~SplitCallRaises
                                 THEN SplitFiles(archive', max_tokens)
                                 ELSE splitdir
                  /\ error' = IF o.split_output /\ SplitCallRaises
                              THEN UnexpectedKeyword ELSE error
                  /\ pc' = IF o.split_output /\ SplitCallRaises THEN "raised" ELSE "archived"
    /\ UNCHANGED <<tree, is_dir, outdir0, outdir, replace_existing, detected, parsed, writes>>
    /\ UNCHANGED <<text, max_chars, chunks, reassembled, nbVars>>
    /\ UNCHANGED scanVars

\* run_unpack(output_directory, combined_file_path, replace_existing)
run_unpack ==
    /\ pc = "archived"
    /\ \E before \in OutDirs :
       \E replace \in BOOLEAN :
       \E st \in {unpack_files_auto(before, archive, replace)} :
              /\ outdir0' = before
              /\ replace_existing' = replace
              /\ detected' = auto_detect_archive_format(archive)
              /\ outdir' = st.fs
              /\ parsed' = st.parsed
              /\ writes' = st.writes
              /\ made' = st.made
              /\ pc' = IF st.raised THEN "raised" ELSE "unpacked"
    /\ UNCHANGED <<tree, opts, file_list, archive, is_dir, error>>
    /\ UNCHANGED <<splitVars, nbVars>>
    /\ UNCHANGED scanVars

archive_files == ArchiveWith(Options)

Next == archive_files \/ run_unpack

Spec == Init /\ [][Next]_vars

(***************************************************************************)
(* The filter session: archive_files and run_concat on directories with    *)
(* hidden entries, subdirectories and notebooks                            *)
(***************************************************************************)

env_py == <<".", "e", "n", "v", ".", "p", "y">>
git_c_py == <<".", "g", "i", "t", "/", "c", ".", "p", "y">>
R_a_py == <<"R", "/", "a", ".", "p", "y">>
R_x_b_py == <<"R", "/", "x", "/", "b", ".", "p", "y">>
Research_a_py == <<"R", "e", "s", "e", "a", "r", "c", "h", "/", "a", ".", "p", "y">>
c_py == <<"c", ".", "p", "y">>
bad_ipynb == <<"b", "a", "d", ".", "i", "p", "y", "n", "b">>
d_txt == <<"d", ".", "t", "x", "t">>

\* the files a directory of the filter session is drawn from; bad.ipynb is not JSON
FilterFiles ==
    (GitIgnore :> TextFile(<<"*", ".", "o">>)) @@
    (env_py :> TextFile(<<"k", "=", "1">>)) @@
    (git_c_py :> TextFile(<<"h">>)) @@
    (R_a_py :> TextFile(<<"a">>)) @@
    (R_x_b_py :> TextFile(<<"b">>)) @@
    (Research_a_py :> TextFile(<<"r">>)) @@
    (c_py :> TextFile(<<"c", "\n">>)) @@
    (bad_ipynb :> TextFile(<<"{">>)) @@
    (nb_ipynb :> NotebookFile([cells |-> << CodeCell(<< <<"x">> >>, << <<"1">> >>) >>])) @@
    (d_txt :> TextFile(<<"t">>))

FilterTrees ==
    {[p \in S |-> FilterFiles[p]] :
        S \in {S \in SUBSET DOMAIN FilterFiles : Cardinality(S) <= MaxFiles}}

PyOnly == { <<".", "p", "y">> }

\* the calls of archive_files of the filter session
FilterOptions ==
    [ llm_friendly : {FALSE},
      include_subdirectories : BOOLEAN,
      extract_code_only : {FALSE},
      file_types : {DefaultFileTypes, PyOnly},
      file_prefixes : {{}, {<<"c">>}},
      exclude_dirs : {{}},
      root_files : {{}, {GitIgnore}},
      include_subdirs : {{}, {<<"R">>}},
      explicit : {FALSE},
      explicit_files : {<<>>},
      split_output : BOOLEAN ]

\* what an output file left by an earlier run holds
old_archive == <<"o", "l", "d", "\n">>

\* the input directory exists and holds some files, or does not exist; the
\* output file is absent (empty) or was left by an earlier run
InitFilter ==
    /\ pc = "start"
    /\ \/ is_dir = TRUE /\ tree \in FilterTrees
       \/ is_dir = FALSE /\ tree = EmptyDir
    /\ opts = NoOptions
    /\ file_list = <<>>
    /\ archive \in {<<>>, old_archive}
    /\ outdir0 = EmptyDir
    /\ outdir = EmptyDir
    /\ replace_existing = FALSE
    /\ detected = "none"
    /\ parsed = <<>>
    /\ writes = <<>>
    /\ text = <<>>
    /\ max_chars = 0
    /\ chunks = <<>>
    /\ splitdir = EmptyDir
    /\ reassembled = <<>>
    /\ notebook0 = NoNotebook
    /\ notebook = NoNotebook
    /\ notebook1 = NoNotebook
    /\ made = {}
    /\ error = <<>>
    /\ NoScan

\* archive_files on a directory of the filter session
archive_filtered == ArchiveWith(FilterOptions)

\* run_concat(current_directory, combined_files, file_types)
run_concat ==
    /\ pc = "start"
    /\ is_dir
    /\ \E file_types \in {DefaultFileTypes, PyOnly} :
       \E walk \in Orders(DOMAIN tree) :
          /\ opts' = [NoOptions EXCEPT !.file_types = file_types]
          /\ file_list' = ConcatFiles(tree, walk, 1, file_types)
          /\ archive' = ConcatText(file_list')
    /\ pc' = "concatenated"
    /\ UNCHANGED <<tree, outdir0, outdir, replace_existing, detected, parsed, writes>>
    /\ UNCHANGED <<splitVars, nbVars, fsVars>>
    /\ UNCHANGED scanVars

NextFilter == archive_filtered \/ run_concat

SpecFilter == InitFilter /\ [][NextFilter]_vars

(***************************************************************************)
(* The split and reassemble session                                        *)
(***************************************************************************)

InitSplit ==
    /\ pc = "start"
    /\ text \in Texts
    /\ tree = EmptyDir
    /\ opts = NoOptions
    /\ file_list = <<>>
    /\ archive = <<>>
    /\ outdir0 = EmptyDir
    /\ outdir = EmptyDir
    /\ replace_existing = FALSE
    /\ detected = "none"
    /\ parsed = <<>>
    /\ writes = <<>>
    /\ max_chars = 0
    /\ chunks = <<>>
    /\ splitdir = EmptyDir
    /\ reassembled = <<>>
    /\ notebook0 = NoNotebook
    /\ notebook = NoNotebook
    /\ notebook1 = NoNotebook
    /\ is_dir = TRUE
    /\ made = {}
    /\ error = <<>>
    /\ NoScan

\* split_file(file_path, max_chars, output_dir) into an empty directory
split_file ==
    /\ pc = "start"
    /\ \E limit \in 1..MaxLimit :
          /\ max_chars' = limit
          /\ chunks' = Chunks(text, limit)
          /\ splitdir' = SplitFiles(text, limit)
    /\ made' = {split_dir}
    /\ pc' = "split"
    /\ UNCHANGED <<text, reassembled, codecVars, nbVars, is_dir, error>>
    /\ UNCHANGED scanVars

\* the archive text a reconstruction reads: a chunk directory is reassembled
ArchiveContent == IF pc = "split" THEN Reassemble(splitdir) ELSE archive

\* extract_notebooks_to_ipynb(archive_file_path, output_directory, replace_existing)
extract_notebooks_to_ipynb ==
    /\ pc \in {"split", "archived"}
    /\ \E content \in {ArchiveContent} :
       \E before \in NotebookOutDirs :
       \E replace \in BOOLEAN :
       \E st \in {ExtractToIpynb(before, content, replace)} :
              /\ reassembled' = content
              /\ outdir0' = before
              /\ replace_existing' = replace
              /\ outdir' = st.fs
              /\ parsed' = st.parsed
              /\ writes' = st.writes
              /\ made' = st.made
              /\ pc' = IF st.raised THEN "raised" ELSE "extracted"
    /\ UNCHANGED <<tree, opts, file_list, archive, detected, is_dir, error>>
    /\ UNCHANGED <<text, max_chars, chunks, splitdir, nbVars>>
    /\ UNCHANGED scanVars

\* extract_notebooks_and_quarto(archive_file_path, output_directory, replace_existing)
extract_notebooks_and_quarto ==
    /\ pc \in {"split", "archived"}
    /\ \E content \in {ArchiveContent} :
       \E before \in NotebookOutDirs :
       \E replace \in BOOLEAN :
       \E st \in {ExtractAndQuarto(before, content, replace)} :
              /\ reassembled' = content
              /\ outdir0' = before
              /\ replace_existing' = replace
              /\ outdir' = st.fs
              /\ parsed' = st.parsed
              /\ writes' = st.writes
              /\ made' = st.made
              /\ pc' = "extracted_all"
    /\ UNCHANGED <<tree, opts, file_list, archive, detected, is_dir, error>>
    /\ UNCHANGED <<text, max_chars, chunks, splitdir, nbVars>>
    /\ UNCHANGED scanVars

NextSplit == split_file \/ extract_notebooks_to_ipynb \/ extract_notebooks_and_quarto

SpecSplit == InitSplit /\ [][NextSplit]_vars

(***************************************************************************)
(* The notebook session                                                    *)
(***************************************************************************)

InitNotebook ==
    /\ pc = "start"
    /\ notebook0 \in Notebooks
    /\ notebook = notebook0
    /\ notebook1 = NoNotebook
    /\ tree = (nb_ipynb :> NotebookFile(notebook0))
    /\ opts = NoOptions
    /\ file_list = <<>>
    /\ archive = <<>>
    /\ outdir0 = EmptyDir
    /\ outdir = EmptyDir
    /\ replace_existing = FALSE
    /\ detected = "none"
    /\ parsed = <<>>
    /\ writes = <<>>
    /\ text = <<>>
    /\ max_chars = 0
    /\ chunks = <<>>
    /\ splitdir = EmptyDir
    /\ reassembled = <<>>
    /\ is_dir = TRUE
    /\ made = {}
    /\ error = <<>>
    /\ NoScan

\* remove_outputs_from_code_cells(notebook), a first and a second time
prune ==
    /\ pc \in {"start", "pruned"}
    /\ notebook' = remove_outputs_from_code_cells(notebook)
    /\ notebook1' = IF pc = "start" THEN notebook' ELSE notebook1
    /\ pc' = IF pc = "start" THEN "pruned" ELSE "pruned_twice"
    /\ UNCHANGED <<notebook0, codecVars, splitVars, fsVars>>
    /\ UNCHANGED scanVars

\* archive_files on the directory that holds the notebook
archive_notebook == ArchiveWith(NotebookOptions)

NextNotebook ==
    prune \/ archive_notebook \/ extract_notebooks_to_ipynb \/ extract_notebooks_and_quarto

SpecNotebook == InitNotebook /\ [][NextNotebook]_vars

(***************************************************************************)
(* The reconstruction session: the two extractors on archives with and     *)
(* without a table of contents                                             *)
(***************************************************************************)

flat_ipynb == <<"f", "l", "a", "t", ".", "i", "p", "y", "n", "b">>
d_qmd == <<"d", ".", "q", "m", "d">>

\* the notebook the archived sections are made from
SectionNotebook == [cells |-> << MarkdownCell(<< <<"#", " ", "T">> >>) >>]

\* the sections an archive to reconstruct is made of: a notebook as JSON, a
\* notebook as marked cells, a Quarto document and a Python file
SectionChoices ==
    { [rel_path |-> nb_ipynb, content |-> json_dumps(SectionNotebook)],
      [rel_path |-> flat_ipynb, content |-> FlattenScan(SectionNotebook.cells, 1)],
      [rel_path |-> d_qmd, content |-> <<"-", "-", "\n", "q">>],
      [rel_path |-> b_py, content |-> <<"x", "=", "1">>] }

\* the file lists of those archives
SectionLists ==
    {SortByPath(l) : l \in UNION {Orders(S) :
        S \in {S \in SUBSET SectionChoices : Cardinality(S) \in 1..MaxFiles}}}

\* an archive whose head, table of contents included, is missing: what
\* a later chunk of a split archive holds
Headless(l, o) == Sections(l, o)

\* the archive, in one of the two formats, with its table of contents or without
InitExtract ==
    /\ pc = "archived"
    /\ \E l \in SectionLists : \E llm_friendly \in BOOLEAN : \E complete \in BOOLEAN :
          /\ file_list = l
          /\ opts = [NoOptions EXCEPT !.llm_friendly = llm_friendly]
          /\ archive = IF complete THEN ArchiveText(l, opts) ELSE Headless(l, opts)
    /\ tree = EmptyDir
    /\ outdir0 = EmptyDir
    /\ outdir = EmptyDir
    /\ replace_existing = FALSE
    /\ detected = "none"
    /\ parsed = <<>>
    /\ writes = <<>>
    /\ text = <<>>
    /\ max_chars = 0
    /\ chunks = <<>>
    /\ splitdir = EmptyDir
    /\ reassembled = <<>>
    /\ notebook0 = NoNotebook
    /\ notebook = NoNotebook
    /\ notebook1 = NoNotebook
    /\ is_dir = TRUE
    /\ made = {}
    /\ error = <<>>
    /\ NoScan

NextExtract == extract_notebooks_to_ipynb \/ extract_notebooks_and_quarto

SpecExtract == InitExtract /\ [][NextExtract]_vars

(***************************************************************************)
(* The decode session: the four decoders on archives whose section paths   *)
(* have backslashes, directories, ".." segments or a leading "/", and on   *)
(* standard archives with a section that lacks its closing line            *)
(***************************************************************************)

sub_mod_py == <<"s", "u", "b", "\\", "m", "o", "d", ".", "p", "y">>
sub_nb_ipynb == <<"s", "u", "b", "/", "n", "b", ".", "i", "p", "y", "n", "b">>
sub_d_qmd == <<"s", "u", "b", "/", "d", ".", "q", "m", "d">>
up_x_py == <<".", ".", "/", "x", ".", "p", "y">>
abs_py == <<"/", "a", "b", "s", ".", "p", "y">>
a_py == <<"a", ".", "p", "y">>

\* the sections an archive to decode is made of; the one of a.py is written
\* without its closing line
DecodeChoices ==
    { [rel_path |-> sub_mod_py, content |-> <<"m">>],
      [rel_path |-> sub_nb_ipynb, content |-> json_dumps(SectionNotebook)],
      [rel_path |-> sub_d_qmd, content |-> <<"q">>],
      [rel_path |-> up_x_py, content |-> <<"x">>],
      [rel_path |-> abs_py, content |-> <<"r">>],
      [rel_path |-> b_py, content |-> <<"x", "=", "1">>],
      [rel_path |-> a_py, content |-> <<"y">>] }

DecodeLists ==
    {SortByPath(l) : l \in UNION {Orders(S) :
        S \in {S \in SUBSET DecodeChoices : Cardinality(S) \in 1..MaxFiles}}}

\* a standard section whose header has no closing "---" line
MalformedSection(l, idx) == StdMarker \o l[idx].rel_path \o NL \o l[idx].content \o NL \o NL

\* whether the archive of file list l holds a malformed section
HasMalformed(l, o) == ~o.llm_friendly /\ \E idx \in 1..Len(l) : l[idx].rel_path = a_py

\* the text of the archive to decode
DecodeText(l, o) ==
    Preamble(o) \o TableOfContents(l)
    \o Concat([idx \in 1..Len(l) |->
            IF ~o.llm_friendly /\ l[idx].rel_path = a_py
            THEN MalformedSection(l, idx)
            ELSE SectionText(l, idx, o)])

InitDecode ==
    /\ pc = "archived"
    /\ \E l \in DecodeLists : \E llm_friendly \in BOOLEAN :
          /\ llm_friendly => \A idx \in 1..Len(l) : l[idx].rel_path # a_py
          /\ file_list = l
          /\ opts = [NoOptions EXCEPT !.llm_friendly = llm_friendly]
          /\ archive = DecodeText(l, opts)
    /\ tree = EmptyDir
    /\ outdir0 = EmptyDir
    /\ outdir = EmptyDir
    /\ replace_existing = FALSE
    /\ detected = "none"
    /\ parsed = <<>>
    /\ writes = <<>>
    /\ text = <<>>
    /\ max_chars = 0
    /\ chunks = <<>>
    /\ splitdir = EmptyDir
    /\ reassembled = <<>>
    /\ notebook0 = NoNotebook
    /\ notebook = NoNotebook
    /\ notebook1 = NoNotebook
    /\ is_dir = TRUE
    /\ made = {}
    /\ error = <<>>
    /\ NoScan

NextDecode == run_unpack \/ extract_notebooks_to_ipynb \/ extract_notebooks_and_quarto

SpecDecode == InitDecode /\ [][NextDecode]_vars

(***************************************************************************)
(* The scan session: the marker scan of extract_notebooks_to_ipynb, one    *)
(* line at a time                                                          *)
(***************************************************************************)

\* the longest section body of the scan session, in lines
MaxScan == 4

\* the lines a section body is made of
ScanLineChoices ==
    { CellMarker \o <<"1">>, MarkdownMarker \o <<"1">>, TripleQuote, <<"x">>, <<>> }

\* the section bodies (file_content) the scan is run on
ScanBodies ==
    {Join(NL, ls) : ls \in UNION {[1..n -> ScanLineChoices] : n \in 0..MaxScan}}

InitScan ==
    /\ pc = "seeking"
    /\ text \in ScanBodies
    /\ scan_lines = SplitLines(text)
    /\ scan_index = 1
    /\ scan_cells = <<>>
    /\ scan_body = <<>>
    /\ tree = EmptyDir
    /\ opts = NoOptions
    /\ file_list = <<>>
    /\ archive = <<>>
    /\ outdir0 = EmptyDir
    /\ outdir = EmptyDir
    /\ replace_existing = FALSE
    /\ detected = "none"
    /\ parsed = <<>>
    /\ writes = <<>>
    /\ max_chars = 0
    /\ chunks = <<>>
    /\ splitdir = EmptyDir
    /\ reassembled = <<>>
    /\ notebook0 = NoNotebook
    /\ notebook = NoNotebook
    /\ notebook1 = NoNotebook
    /\ is_dir = TRUE
    /\ made = {}
    /\ error = <<>>

\* a pass of the outer loop that leaves the index of a plain line where it is
SeekLineInPlace(content_lines, k) ==
    IF StartsWith(content_lines[k], MarkdownMarker)
    THEN IF k + 1 <= Len(content_lines) /\ Strip(content_lines[k + 1]) = TripleQuote
         THEN [pc |-> "markdown", index |-> k + 2]
         ELSE [pc |-> "seeking", index |-> k + 2]
    ELSE IF StartsWith(content_lines[k], CellMarker)
    THEN [pc |-> "code", index |-> k + 1]
    ELSE [pc |-> "seeking", index |-> k]

\* one pass of the outer loop at line k: a markdown marker is passed with the
\* line after it, which opens a quoted body when it is the triple quote; a cell
\* marker opens a code body; any other line is passed
SeekLine(content_lines, k) ==
    IF StartsWith(content_lines[k], MarkdownMarker)
    THEN IF k + 1 <= Len(content_lines) /\ Strip(content_lines[k + 1]) = TripleQuote
         THEN [pc |-> "markdown", index |-> k + 2]
         ELSE [pc |-> "seeking", index |-> k + 2]
    ELSE IF StartsWith(content_lines[k], CellMarker)
    THEN [pc |-> "code", index |-> k + 1]
    ELSE [pc |-> "seeking", index |-> k + 1]

\* the cells with the accumulated code body: trailing blank lines are dropped,
\* and a body with no other line gives no cell
WithCodeCell(cells, code_content) ==
    IF TrimTrailingBlank(code_content) # <<>>
    THEN Append(cells, CodeCell(TrimTrailingBlank(code_content), <<>>))
    ELSE cells

notScanned == <<tree, opts, file_list, archive, outdir0, replace_existing, detected, parsed,
                text, max_chars, chunks, splitdir, reassembled, notebook0, notebook1,
                is_dir, made, error, scan_lines>>

\* seeking a cell start: the outer loop reads line i
seek_cell_start ==
    /\ pc = "seeking"
    /\ scan_index <= Len(scan_lines)
    /\ \E to \in {SeekLine(scan_lines, scan_index)} :
          /\ pc' = to.pc
          /\ scan_index' = to.index
    /\ UNCHANGED <<scan_cells, scan_body, notebook, outdir, writes, notScanned>>

\* accumulating a code body: the inner loop reads line i; at a marker the cell
\* is closed and the outer loop reads that line
accumulate_code ==
    /\ pc = "code"
    /\ scan_index <= Len(scan_lines)
    /\ IF \/ StartsWith(scan_lines[scan_index], CellMarker)
          \/ StartsWith(scan_lines[scan_index], MarkdownMarker)
       THEN \E to \in {SeekLine(scan_lines, scan_index)} :
               /\ scan_cells' = WithCodeCell(scan_cells, scan_body)
               /\ scan_body' = <<>>
               /\ pc' = to.pc
               /\ scan_index' = to.index
       ELSE /\ scan_body' = Append(scan_body, scan_lines[scan_index] \o NL)
            /\ scan_index' = scan_index + 1
            /\ UNCHANGED <<pc, scan_cells>>
    /\ UNCHANGED <<notebook, outdir, writes, notScanned>>

\* accumulating a quoted markdown body: the inner loop reads line i
accumulate_markdown ==
    /\ pc = "markdown"
    /\ scan_index <= Len(scan_lines)
    /\ IF Strip(scan_lines[scan_index]) = TripleQuote
       THEN /\ scan_cells' = Append(scan_cells, MarkdownCell(scan_body))
            /\ scan_body' = <<>>
            /\ pc' = "seeking"
       ELSE /\ scan_body' = Append(scan_body, scan_lines[scan_index] \o NL)
            /\ UNCHANGED <<pc, scan_cells>>
    /\ scan_index' = scan_index + 1
    /\ UNCHANGED <<notebook, outdir, writes, notScanned>>

\* the input is exhausted: an open body is closed, the loop is left and the
\* notebook is written
end_of_input ==
    /\ pc \in {"seeking", "code", "markdown"}
    /\ scan_index > Len(scan_lines)
    /\ scan_cells' = CASE pc = "code" -> WithCodeCell(scan_cells, scan_body)
                       [] pc = "markdown" -> Append(scan_cells, MarkdownCell(scan_body))
                       [] OTHER -> scan_cells
    /\ scan_body' = <<>>
    /\ scan_index' = IF pc = "markdown" THEN scan_index + 1 ELSE scan_index
    /\ notebook' = [cells |-> scan_cells']
    /\ outdir' = WriteNotebook(outdir, OutPath(nb_ipynb), notebook')
    /\ writes' = Append(writes, [section |-> 1, path |-> OutPath(nb_ipynb),
                                 content |-> text, existed |-> FALSE])
    /\ pc' = "scanned"
    /\ UNCHANGED notScanned

NextScan == seek_cell_start \/ accumulate_code \/ accumulate_markdown \/ end_of_input

SpecScan == InitScan /\ [][NextScan]_vars

\* the loop of the scan is run to its end: a step that can be taken is taken
FairSpecScan == SpecScan /\ WF_vars(NextScan)

(***************************************************************************)
(* Properties of the encode and decode session                             *)
(***************************************************************************)

\* the relative paths of the emitted sections
ListedPaths == {file_list[i].rel_path : i \in 1..Len(file_list)}

\* the directory that holds exactly the emitted (rel_path, content) pairs
ListedDir ==
    [p \in ListedPaths |-> TextFile((CHOOSE e \in Range(file_list) : e.rel_path = p).content)]

\* C1: archiving a set of text files in standard mode and unpacking the archive
\* into an empty directory gives back exactly the archived (relative_path, content)
\* pairs, each content character for character.
C1_StandardRoundTrip ==
    (/\ pc = "unpacked"
     /\ ~opts.llm_friendly
     /\ ~opts.explicit
     /\ outdir0 = EmptyDir)
    => outdir = ListedDir

\* C2: with replace_existing = False no write of an unpack goes to a path that
\* existed when it was made, neither one from before the unpack nor one written
\* earlier in it.
C2_NoOverwriteWithoutReplace ==
    (pc = "unpacked" /\ ~replace_existing)
    => \A i \in 1..Len(writes) : ~writes[i].existed

\* C3: with replace_existing = False the body of every parsed section is written
\* to a file, and different sections are written to different files.
C3_CollisionNeverDropsContent ==
    (pc = "unpacked" /\ ~replace_existing)
    => /\ \A i \in 1..Len(parsed) :
            \E k \in 1..Len(writes) :
                writes[k].section = parsed[i].section /\ writes[k].content = parsed[i].content
       /\ \A k, l \in 1..Len(writes) : k # l => writes[k].path # writes[l].path

\* C4: an archive written by archive_files is detected as the format it was
\* written in.
C4_DetectsProducedFormat ==
    pc = "archived"
    => auto_detect_archive_format(archive)
         = (IF opts.llm_friendly THEN "llm-friendly" ELSE "standard")

\* some directory segment of the path is one of the names
HasSegmentIn(p, names) == \E k \in 1..(Len(Parts(p)) - 1) : Parts(p)[k] \in names

\* C9: when the scan recurses, no archived path has a directory segment named in
\* exclude_dirs, whatever the other options are.
C9_ExcludedDirsNeverArchived ==
    (pc = "archived" /\ ~opts.explicit /\ opts.include_subdirectories)
    => \A p \in ListedPaths : ~HasSegmentIn(p, opts.exclude_dirs)

\* the lines of the table-of-contents block of the archive text
TocLines ==
    LET head == <<"#", " ">> \o TocMarker \o NL
        from == FindFrom(archive, head, 1) + Len(head)
        to == FindFrom(archive, NL \o NL, from - 1)
    IN  SplitLines(SubSeq(archive, from, to - 1))

\* the header that frames section idx
SectionHeader(idx) ==
    IF opts.llm_friendly
    THEN Rule \o NL \o <<"#", " ", "F", "I", "L", "E", " ">> \o Decimal(idx) \o <<":", " ">>
         \o file_list[idx].rel_path \o NL \o Rule \o NL
    ELSE StdMarker \o file_list[idx].rel_path \o StdClose

\* where the header of section idx stands in the archive text, 0 if nowhere
RECURSIVE SectionAt(_)
SectionAt(idx) ==
    IF idx = 0 THEN 1
    ELSE IF SectionAt(idx - 1) = 0 THEN 0
    ELSE FindFrom(archive, SectionHeader(idx), SectionAt(idx - 1) + 1)

\* C10: the sections of an archive stand in ascending order of their path strings,
\* and the table of contents has one line "i. <path>" per section, in that order.
C10_SortedSectionsAndToc ==
    pc = "archived"
    => /\ \A i, j \in 1..Len(file_list) :
            i < j => ~StrLess(file_list[j].rel_path, file_list[i].rel_path)
       /\ \A i \in 1..Len(file_list) : SectionAt(i) > 0
       /\ TocLines = [i \in 1..Len(file_list) |->
                        Decimal(i) \o <<".", " ">> \o file_list[i].rel_path]

\* two files were archived and the directory walk returned them in descending order
C10_Witness ==
    /\ pc = "archived"
    /\ Len(file_list) >= 2
    /\ \E i, j \in 1..Len(file_list) : StrLess(file_list[i].rel_path, file_list[j].rel_path)
    /\ Len(TocLines) = Len(file_list)

\* C11: the archive text, whose timestamp lines carry the fixed creation_date,
\* is the same whatever order the directory walk returns the entries in (and
\* whatever order the root files are taken in): every run of archive_files on
\* the same directory with the same options writes the same characters.
C11_EncoderDeterminism ==
    pc = "archived"
    => \A rs \in Orders(opts.root_files) : \A walk \in Orders(Walked(tree, opts)) :
          ArchiveText(FileList(tree, opts, rs, walk), opts) = archive

\* a scan archived two files or more, and some order of the walk finds them in
\* an order other than the emitted one
C11_Witness ==
    /\ pc = "archived"
    /\ ~opts.explicit
    /\ Len(file_list) >= 2
    /\ \E rs \in Orders(opts.root_files) : \E walk \in Orders(Walked(tree, opts)) :
          Walk(tree, walk, 1, opts, RootFiles(tree, rs, 1)) # file_list

\* C14: no relative path heads more than one section of an archive, in scanning
\* mode with any root_files and in explicit_files mode with any list of files,
\* a name listed twice included.
C14_UniquePaths ==
    pc = "archived"
    => \A i, j \in 1..Len(file_list) :
          i # j => file_list[i].rel_path # file_list[j].rel_path

\* C30: archiving a set of plain-text files in llm-friendly mode and unpacking
\* the archive into an empty directory gives back the archived relative paths,
\* each with its original content, no blank line added at its start or end.
C30_LlmRoundTrip ==
    (/\ pc = "unpacked"
     /\ opts.llm_friendly
     /\ ~opts.explicit
     /\ \A p \in DOMAIN tree : tree[p].kind = "text"
     /\ outdir0 = EmptyDir)
    => outdir = ListedDir

(***************************************************************************)
(* Properties of the split and reassemble session                          *)
(***************************************************************************)

\* C5: splitting a text and reassembling the chunk directory gives a text with
\* the same sequence of lines, for every text and every limit >= 1.
C5_SplitReassembleIdentity ==
    pc = "split" => SplitLines(Reassemble(splitdir)) = SplitLines(text)

\* C6 as the claim is written: every chunk has a size count within the limit, except a
\* chunk of one line whose own count exceeds it
C6_EveryChunkWithinLimit ==
    pc = "split"
    => \A k \in 1..Len(chunks) :
          \/ ChunkChars(chunks[k]) <= max_chars
          \/ Len(chunks[k]) = 1 /\ ChunkChars(chunks[k]) > max_chars

\* C6: every chunk the line loop emits has a size count within the limit, except
\* a chunk of one line whose own count exceeds it; a text of at most the limit in
\* characters is copied as one chunk, whose size count is at most the limit + 1.
C6_ChunkSizeBound ==
    pc = "split"
    => \A k \in 1..Len(chunks) :
          \/ ChunkChars(chunks[k]) <= max_chars
          \/ Len(chunks[k]) = 1 /\ ChunkChars(chunks[k]) > max_chars
          \/ /\ Unsplit(text, max_chars)
             /\ Len(chunks) = 1
             /\ Len(Join(NL, chunks[k])) <= max_chars
             /\ ChunkChars(chunks[k]) <= max_chars + 1

\* a text was split into a chunk of several lines and a chunk of one long line
C6_Witness ==
    /\ pc = "split"
    /\ ~Unsplit(text, max_chars)
    /\ \E k \in 1..Len(chunks) : Len(chunks[k]) >= 2
    /\ \E k \in 1..Len(chunks) : Len(chunks[k]) = 1 /\ ChunkChars(chunks[k]) > max_chars

\* C21: the reassembly of a chunk directory that split_file wrote in k parts is
\* the concatenation of the kept lines of the parts 1, 2, ..., k in that order,
\* for every k >= 1, k >= 10 included.
C21_ReassemblyFollowsPartNumbers ==
    (pc \in {"extracted", "extracted_all"} /\ ~Unsplit(text, max_chars))
    => reassembled =
          Concat([k \in 1..Len(chunks) |->
                     Join(NL, CleanedLines(splitdir[PartName(k)])) \o NL])

\* C22: for a text longer than the limit, the chunks of split_file, taken in
\* part order, hold the lines of the text, each line whole and once and in its
\* place; no chunk is empty; the files are the parts 1, 2, ..., k without a
\* gap, each holding the lines of its chunk between its header and its closing
\* line; and a line whose own count exceeds the limit is alone in its chunk.
C22_SplitKeepsLinesWholeInOrder ==
    (pc = "split" /\ ~Unsplit(text, max_chars))
    => /\ Concat(chunks) = SplitLines(text)
       /\ \A k \in 1..Len(chunks) : chunks[k] # <<>>
       /\ DOMAIN splitdir = {PartName(k) : k \in 1..Len(chunks)}
       /\ \A k \in 1..Len(chunks) :
             LET file_lines == SplitLines(splitdir[PartName(k)])
             IN  SubSeq(file_lines, 3, Len(file_lines) - 1) = chunks[k]
       /\ \A k \in 1..Len(chunks) : \A i \in 1..Len(chunks[k]) :
             LineChars(chunks[k][i]) > max_chars => Len(chunks[k]) = 1

\* a text was split in parts of which one has two lines and another is a single
\* line whose own count exceeds the limit
C22_Witness ==
    /\ pc = "split"
    /\ ~Unsplit(text, max_chars)
    /\ \E k \in 1..Len(chunks) : Len(chunks[k]) >= 2
    /\ \E k \in 1..Len(chunks) : LineChars(chunks[k][1]) > max_chars

(***************************************************************************)
(* Properties of the notebook session                                      *)
(***************************************************************************)

\* the kind and the source text of every cell of a notebook, in order
CellTexts(nb) ==
    [i \in 1..Len(nb.cells) |->
        [cell_type |-> nb.cells[i].cell_type, source |-> Concat(nb.cells[i].source)]]

\* C7: a notebook of one or more non-empty cells, flattened by
\* archive_files(extract_code_only, llm_friendly) and reconstructed by either
\* extractor into an empty directory, has the same number of cells, of the same
\* kinds in the same order, with the same source texts.
C7_FlattenRoundTrip ==
    (/\ pc \in {"extracted", "extracted_all"}
     /\ opts.extract_code_only
     /\ opts.llm_friendly
     /\ notebook0.cells # <<>>
     /\ outdir0 = EmptyDir)
    => /\ nb_ipynb \in DOMAIN outdir
       /\ outdir[nb_ipynb].kind = "notebook"
       /\ CellTexts(outdir[nb_ipynb].nb) = CellTexts(notebook0)

\* C8: pruning keeps the number, order, kinds and sources of the cells and every
\* markdown cell, leaves every code cell with empty outputs, and pruning a second
\* time changes nothing.
C8_PruneIdempotent ==
    /\ pc \in {"pruned", "pruned_twice"}
       => /\ Len(notebook.cells) = Len(notebook0.cells)
          /\ \A i \in 1..Len(notebook0.cells) :
                /\ notebook.cells[i].cell_type = notebook0.cells[i].cell_type
                /\ notebook.cells[i].source = notebook0.cells[i].source
                /\ notebook0.cells[i].cell_type = "code" => notebook.cells[i].outputs = <<>>
                /\ notebook0.cells[i].cell_type # "code" => notebook.cells[i] = notebook0.cells[i]
    /\ pc = "pruned_twice" => notebook = notebook1

\* a notebook with a code cell that had outputs and a markdown cell was pruned twice
C8_Witness ==
    /\ pc = "pruned_twice"
    /\ \E i \in 1..Len(notebook0.cells) :
          notebook0.cells[i].cell_type = "code" /\ notebook0.cells[i].outputs # <<>>
    /\ \E i \in 1..Len(notebook0.cells) : notebook0.cells[i].cell_type = "markdown"

\* a line of the exact form "# Cell <n>" or "# Markdown Cell <n>", n decimal
IsMarkerLine(line) ==
    \E m \in {CellMarker, MarkdownMarker} :
       /\ StartsWith(line, m)
       /\ Len(line) > Len(m)
       /\ \A i \in (Len(m) + 1)..Len(line) : line[i] \in Range(Digit)

\* a line that begins as a marker does and is none
BeginsAsMarker(line) ==
    /\ StartsWith(line, CellMarker) \/ StartsWith(line, MarkdownMarker)
    /\ ~IsMarkerLine(line)

\* C23: in a notebook rebuilt by the scan for cell markers, a body line that
\* begins with "# Cell " or "# Markdown Cell " and goes on with other text than
\* a number is a line of the source of a cell: it starts no cell and is not lost.
C23_MarkerLinesMatchedExactly ==
    pc \in {"extracted", "extracted_all"}
    => \A k \in 1..Len(writes) :
          LET w == writes[k]
              body_lines == SplitLines(w.content)
          IN  (EndsWith(w.path, IpynbExt) /\ ~StartsWith(Strip(w.content), <<"{">>))
              => \A i \in 1..Len(body_lines) :
                    BeginsAsMarker(body_lines[i])
                    => \E c \in 1..Len(outdir[w.path].nb.cells) :
                          \E j \in 1..Len(outdir[w.path].nb.cells[c].source) :
                             outdir[w.path].nb.cells[c].source[j]
                                \in {body_lines[i], body_lines[i] \o NL}

\* C24: in a notebook rebuilt by the scan for cell markers, by either extractor,
\* no cell has a source whose last line is blank, and no code cell has a
\* source of blank lines only.
C24_TrimmedCellBodies ==
    pc \in {"extracted", "extracted_all"}
    => \A k \in 1..Len(writes) :
          LET w == writes[k]
          IN  (EndsWith(w.path, IpynbExt) /\ ~StartsWith(Strip(w.content), <<"{">>))
              => \A c \in 1..Len(outdir[w.path].nb.cells) :
                    LET cell == outdir[w.path].nb.cells[c]
                    IN  /\ cell.source # <<>> => Strip(cell.source[Len(cell.source)]) # <<>>
                        /\ cell.cell_type = "code"
                           => \E j \in 1..Len(cell.source) : Strip(cell.source[j]) # <<>>

(***************************************************************************)
(* Properties of the filter session                                        *)
(***************************************************************************)

\* C12: in directory-scanning mode no archived relative path has a segment, a
\* directory name or the file name, that starts with '.' or '#', except a file
\* named exactly .gitignore; and a .gitignore at the root of the directory is
\* archived whatever file_types and file_prefixes are.
C12_HiddenEntriesExcluded ==
    (pc = "archived" /\ ~opts.explicit)
    => /\ \A p \in ListedPaths :
            \A i \in 1..Len(Parts(p)) :
               Hidden(Parts(p)[i]) => (i = Len(Parts(p)) /\ Parts(p)[i] = GitIgnore)
       /\ GitIgnore \in DOMAIN tree => GitIgnore \in ListedPaths

\* the directory of the file p is the directory subdir or lies below it
Below(p, subdir) ==
    LET dirs == SubSeq(Parts(p), 1, Len(Parts(p)) - 1)
        segs == Parts(subdir)
    IN  Len(segs) <= Len(dirs) /\ SubSeq(dirs, 1, Len(segs)) = segs

C15_ConcatSelectsByExtension ==
    pc = "concatenated"
    => /\ \A p \in DOMAIN tree :
            (/\ \A i \in 1..Len(Parts(p)) : ~Hidden(Parts(p)[i])
             /\ Suffix(p) \in opts.file_types)
            => \E i \in 1..Len(file_list) :
                  /\ file_list[i].rel_path = p
                  /\ Contains(archive, StdMarker \o p \o StdClose \o file_list[i].content)
       /\ \A i \in 1..Len(file_list) : Suffix(file_list[i].rel_path) \in opts.file_types

\* C16: when the input directory does not exist, archive_files raises an error
\* whose message names that directory, and it has made no directory and has not
\* written the archive file.
C16_MissingRootFatalBeforeOutput ==
    [][(pc = "start" /\ ~is_dir)
       => /\ pc' = "raised"
          /\ EndsWith(error', directory)
          /\ made' = made
          /\ archive' = archive
          /\ file_list' = <<>>]_vars

\* archive_files was called with split_output set on a directory that does not exist
C16_Witness ==
    /\ pc = "raised"
    /\ ~is_dir
    /\ opts.split_output
    /\ error = NoInputDirectory
    /\ archive = old_archive

\* the line an inline error comment begins with
ErrorComment == <<"#", " ", "E", "r", "r", "o", "r">>

\* C17: every file the filter of the scan selects has exactly one section in the
\* archive, whose body is the content of the file, transformed if it is a
\* notebook, or an inline comment that begins with "# Error".
C17_EveryScannedFileHasItsSection ==
    (pc = "archived" /\ ~opts.explicit)
    => \A p \in Walked(tree, opts) :
          Selected(p, opts, {})
          => /\ Cardinality({i \in 1..Len(file_list) : file_list[i].rel_path = p}) = 1
             /\ \A i \in 1..Len(file_list) :
                   file_list[i].rel_path = p
                   => \/ file_list[i].content =
                            (IF tree[p].kind = "notebook"
                             THEN json_dumps(remove_outputs_from_code_cells(tree[p].nb))
                             ELSE tree[p].text)
                      \/ StartsWith(file_list[i].content, ErrorComment)

\* C20: archive_files called on an existing directory with split_output set
\* writes the complete archive, calls the splitter with the limit, and returns
\* normally with a split directory whose chunk files together hold every line
\* of the archive.
C20_EncoderHandsOffToSplitter ==
    (pc \in {"archived", "raised"} /\ is_dir /\ opts.split_output)
    => /\ archive = ArchiveText(file_list, opts)
       /\ pc = "archived"
       /\ splitdir # EmptyDir
       /\ SplitLines(Reassemble(splitdir)) = SplitLines(archive)

(***************************************************************************)
(* Properties of the reconstruction session                                *)
(***************************************************************************)

\* C18: given an archive text without the table-of-contents marker, each of the
\* two extractors stops before it makes the output directory and before it
\* writes a file: the file system is as it was.
C18_AbortsWithoutTableOfContents ==
    (pc \in {"extracted", "extracted_all", "raised"} /\ ~Contains(reassembled, TocMarker))
    => /\ made = {}
       /\ writes = <<>>
       /\ outdir = outdir0
       /\ pc # "raised"

\* an extractor was given an archive that has a notebook section and no table of
\* contents
C18_Witness ==
    /\ pc \in {"extracted", "extracted_all"}
    /\ ~Contains(reassembled, TocMarker)
    /\ \E i \in 1..Len(file_list) : file_list[i].rel_path = nb_ipynb
    /\ Contains(reassembled, nb_ipynb)
    /\ outdir = outdir0

\* C19: extract_notebooks_and_quarto, on a complete archive of either format and
\* an empty output directory, writes for every section: of a .ipynb section
\* whose body begins with '{' the notebook that body is the JSON of, of a .ipynb
\* section with another body the notebook the scan for cell markers builds, of
\* a .qmd section the body as it is, and no file for any other extension.
C19_DispatchByExtensionAndBody ==
    (pc = "extracted_all" /\ outdir0 = EmptyDir /\ Contains(reassembled, TocMarker))
    => \A i \in 1..Len(file_list) :
          LET p == file_list[i].rel_path
              body == file_list[i].content
          IN  IF Suffix(p) = IpynbExt
              THEN /\ p \in DOMAIN outdir
                   /\ outdir[p].kind = "notebook"
                   /\ IF StartsWith(Strip(body), <<"{">>)
                      THEN <<outdir[p].nb>> = json_loads(body)
                      ELSE outdir[p].nb.cells \in
                              { MarkerScan(SplitLines(body), 1, <<>>),
                                LineScan(SplitLines(body), 1, <<>>, <<>>, "None") }
              ELSE IF Suffix(p) = QmdExt
              THEN /\ p \in DOMAIN outdir
                   /\ outdir[p].kind = "text"
                   /\ Strip(outdir[p].text) = Strip(body)
              ELSE p \notin DOMAIN outdir

(***************************************************************************)
(* Properties of the decode session                                        *)
(***************************************************************************)

\* the section path with every backslash replaced by a forward slash
Slashed(p) == [i \in 1..Len(p) |-> IF p[i] = "\\" THEN "/" ELSE p[i]]

\* C25: for a section whose path has backslashes, the standard decoder and the
\* llm-friendly decoder write the file at the path with each backslash replaced
\* by a forward slash.
C25_BackslashNormalization ==
    (pc = "unpacked" /\ outdir0 = EmptyDir /\ ~HasMalformed(file_list, opts))
    => \A i \in 1..Len(file_list) :
          LET p == file_list[i].rel_path
          IN  Contains(p, <<"\\">>)
              => /\ Slashed(p) \in DOMAIN outdir
                 /\ Strip(outdir[Slashed(p)].text) = Strip(file_list[i].content)

\* the sections the decoder that ran writes a file for
Handled(p) ==
    CASE pc = "extracted" -> EndsWith(p, IpynbExt)
      [] pc = "extracted_all" -> EndsWith(p, IpynbExt) \/ EndsWith(p, QmdExt)
      [] OTHER -> TRUE

\* C26: decoding into an empty directory, every decoder makes the parent
\* directory of a section path that has directory segments, and writes the
\* file there.
C26_ParentDirectoriesCreated ==
    (/\ pc \in {"unpacked", "extracted", "extracted_all"}
     /\ outdir0 = EmptyDir
     /\ ~HasMalformed(file_list, opts)
     \* extract_notebooks_to_ipynb reads llm-friendly archives only
     /\ pc = "extracted" => opts.llm_friendly)
    => \A i \in 1..Len(file_list) :
          LET p == file_list[i].rel_path
          IN  (p \in {sub_nb_ipynb, sub_d_qmd} /\ Handled(p))
              => /\ ParentDir(p) \in made
                 /\ p \in DOMAIN outdir

\* C27: when a section of a standard archive lacks its closing line, the first
\* section included, unpack_files raises nothing and writes every well-formed
\* section that follows it.
C27_MalformedSectionSkipped ==
    (/\ pc \in {"unpacked", "raised"}
     /\ HasMalformed(file_list, opts)
     /\ outdir0 = EmptyDir)
    => /\ pc = "unpacked"
       /\ \A i, j \in 1..Len(file_list) :
             (file_list[i].rel_path = a_py /\ i < j)
             => OutPath(Slashed(file_list[j].rel_path)) \in DOMAIN outdir

\* the path p, taken from the output directory, stays in that directory: it is
\* not absolute and no prefix of it has more ".." segments than other ones
Inside(p) ==
    LET ps == Parts(p)
    IN  /\ p # <<>>
        /\ p[1] # "/"
        /\ \A k \in 1..Len(ps) :
              2 * Cardinality({i \in 1..k : ps[i] = <<".", ".">>}) <= k - 1

\* C29: every file a decoder creates or overwrites lies inside the output
\* directory, for section paths with ".." segments and absolute ones too.
C29_DecodedFilesStayInside ==
    pc \in {"unpacked", "raised", "extracted", "extracted_all"}
    => /\ \A k \in 1..Len(writes) : Inside(writes[k].path)
       /\ \A p \in DOMAIN outdir : p \notin DOMAIN outdir0 => Inside(p)

(***************************************************************************)
(* Properties of the scan session                                          *)
(***************************************************************************)

\* C28: the marker scan terminates: every step that reads a line moves the
\* line index forward, the index never runs past the end of the lines by more
\* than the step that closes the loop, the end of input is reached, and then
\* exactly one notebook is written, with the cells of the scan.
C28_MarkerScanTerminates ==
    /\ [][scan_index <= Len(scan_lines) => scan_index' > scan_index]_vars
    /\ [](scan_index <= Len(scan_lines) + 2)
    /\ [](pc # "scanned" => writes = <<>>)
    /\ <>(pc = "scanned")
    /\ [](pc = "scanned"
          => /\ scan_index > Len(scan_lines)
             /\ Len(writes) = 1
             /\ notebook = [cells |-> MarkerScan(scan_lines, 1, <<>>)]
             /\ outdir = (OutPath(nb_ipynb) :> NotebookFile(notebook)))

C28_Witness ==
    /\ pc = "scanned"
    /\ Len(scan_lines) = MaxScan
    /\ \E a, b \in 1..Len(notebook.cells) :
          notebook.cells[a].cell_type = "code" /\ notebook.cells[b].cell_type = "markdown"

====
